---- MODULE Spec2Model ----
(***************************************************************************)
(* A model of the interrupt-safe I/O core of the avro driver library:      *)
(* the circular buffer (include/avro/circular_buffer.h) and the delimited   *)
(* stream reader of the serial driver (include/avro/usart.h).              *)
(***************************************************************************)
EXTENDS Integers, Sequences, FiniteSets, TLC

\* ------------------------------------------------------------------------
\* Bounds of the model
\* ------------------------------------------------------------------------

\* buf->len of the circular buffer exercised on its own
CAP == 3
\* longest payload handed to circular_buffer_write
MaxWriteLen == CAP + 1
\* largest max_len / amount handed to read and advance (255 is added to these)
MaxAmount == CAP + 1
\* bound on the number of bytes accepted and not yet removed (history)
MaxFifo == CAP + 2
\* longest buffer handed to twi_transfer and twi_transfer_blocking
MaxTwiLen == 2
\* the number of calls of twi_transfer and twi_transfer_blocking in a run
MaxTwiCalls == MaxTwiLen

\* ------------------------------------------------------------------------
\* Program constants
\* ------------------------------------------------------------------------

U8Mod == 256

\* the byte values written by producers
ByteVals == {1, 2}

Bytes == 0..(U8Mod - 1)

\* a value stored into a uint8_t
U8(x) == x % U8Mod

Min(a, b) == IF a <= b THEN a ELSE b

Max(a, b) == IF a >= b THEN a ELSE b

SeqsUpTo(S, n) == UNION {[1..k -> S] : k \in 0..n}

\* ------------------------------------------------------------------------
\* State
\* ------------------------------------------------------------------------

VARIABLES
    start,      \* circular_buffer_t.start
    end,        \* circular_buffer_t.end
    buf,        \* circular_buffer_t.buf, the backing storage, indexed from 0
    buflen,     \* circular_buffer_t.len
    fifo,       \* history: the bytes accepted by writes and not yet removed
    overflowed, \* history: the number of buffered bytes has exceeded buflen - 1
    res,        \* the last operation and what it returned
    stream,     \* history: the bytes the receive interrupt has delivered
    cpc,        \* foreground call into the buffer: the step it is at
    cop,        \* foreground call: the function called
    carg,       \* foreground call: its max_len or amount
    cmark,      \* history: Len(stream) when the foreground call was made
    l_bstart,   \* foreground call: the local bstart
    l_bend,     \* foreground call: the local bend
    dest,       \* foreground call: the bytes copied to dest so far
    pc,         \* stream reader: where the call is (read, search, sleep, done)
    needle,     \* stream reader: the needle, a string without its NUL
    slen,       \* stream reader: the parameter len, the size of recv_buf
    recv_buf,   \* stream reader: the caller's scratch buffer, indexed from 0
    total_recv_bytes, \* stream reader: the local of that name
    recv_bytes, \* stream reader: the local of that name
    match,      \* history: offset in stream of the needle the reader found
    tpc,        \* usart_send_bytes: the step the call is at
    tsrc,       \* usart_send_bytes: the bytes buf[0..len) to send
    t_bstart,   \* usart_send_bytes: the local bstart of circular_buffer_write
    t_bend,     \* usart_send_bytes: the local bend of circular_buffer_write
    usart_is_sending, \* _usart_is_sending
    udrie,      \* bit UDRIE0 of UCSR0B
    wire,       \* history: the bytes stored to UDR0
    submitted,  \* history: the bytes handed to the send functions
    refused,    \* history: a write to the send buffer returned Full
    twi_state,  \* _twi_state
    twi_addr,   \* _twi_addr
    twi_buf_index, \* _twi_buf_index
    twi_buf,    \* _twi_buf: the object it points to
    twi_buf_len, \* _twi_buf_len
    twint,      \* bit TWINT of TWCR: the bus controller has finished a phase
    twie,       \* bit TWIE of TWCR
    tw_status,  \* TW_STATUS
    twdr,       \* TWDR
    phase,      \* the phase the bus controller is executing
    bus,        \* history: the phases put on the bus since the last start
    isr_seen,   \* history: _twi_state when ISR(TWI_vect) ran for this phase
    sreg_i,     \* the global interrupt flag
    ubuf,       \* the caller's buffer, indexed from 0
    apc,        \* twi_transfer: the step the call is at
    a_addr,     \* twi_transfer: the parameter addr
    a_len,      \* twi_transfer: the parameter len
    a_buf,      \* twi_transfer: the object the parameter buf points to
    sbuf,       \* twi_send: its array buf[], << >> outside its lifetime
    bpc,        \* twi_transfer_blocking: the step the call is at
    b_addr,     \* twi_transfer_blocking: the parameter addr
    b_len,      \* twi_transfer_blocking: the parameter len
    b_i,        \* twi_transfer_blocking: the loop counter i
    twi_calls,  \* history: the number of calls of the two transfer functions
    overlapped  \* history: twi_transfer was called with a transfer in flight

rbVars == <<start, end, buf, buflen>>

histVars == <<fifo, overflowed>>

\* the frame of a foreground call that the receive interrupt may interrupt
fgVars == <<cpc, cop, carg, cmark, l_bstart, l_bend, dest>>

\* the frame of usart_recv_take_until_blocking / usart_recv_drop_until_blocking
rdVars == <<pc, needle, slen, recv_buf, total_recv_bytes, recv_bytes, match>>

\* the frame of usart_send_bytes and the transmit side of the USART
txVars == <<tpc, tsrc, t_bstart, t_bend, usart_is_sending, udrie, wire,
            submitted, refused>>

\* the TWI engine, the bus controller and the frames of its two entry points
twiVars == <<twi_state, twi_addr, twi_buf_index, twi_buf, twi_buf_len,
             twint, twie, tw_status, twdr, phase, bus, isr_seen, sreg_i, ubuf,
             apc, a_addr, a_len, bpc, b_addr, b_len, b_i, twi_calls, overlapped,
                   a_buf, sbuf>>

vars == <<start, end, buf, buflen, fifo, overflowed, res, stream,
          cpc, cop, carg, cmark, l_bstart, l_bend, dest,
          pc, needle, slen, recv_buf, total_recv_bytes, recv_bytes, match,
          tpc, tsrc, t_bstart, t_bend, usart_is_sending, udrie, wire,
          submitted, refused,
          twi_state, twi_addr, twi_buf_index, twi_buf, twi_buf_len,
          twint, twie, tw_status, twdr, phase, bus, isr_seen, sreg_i, ubuf,
          apc, a_addr, a_len, bpc, b_addr, b_len, b_i, twi_calls, overlapped,
                   a_buf, sbuf>>

\* ------------------------------------------------------------------------
\* circular_buffer.h, as functions of the fields they load
\* ------------------------------------------------------------------------

OK == "CIRCULAR_BUFFER_OK"

FULL == "CIRCULAR_BUFFER_FULL"

\* memcpy(b + off, src, Len(src)) on the storage b
Memcpy(b, off, src) ==
    [i \in DOMAIN b |->
        IF off <= i /\ i < off + Len(src) THEN src[i - off + 1] ELSE b[i]]

\* the bytes b[off], ..., b[off + n - 1], as memcpy(dest, b + off, n) copies them
Slice(b, off, n) == [i \in 1..n |-> b[off + i - 1]]

\* circular_buffer_len with the bytes before end left out of a wrapped region
circular_buffer_len_NoFront(bstart, bend, blen) ==
    IF bstart <= bend THEN U8(bend - bstart) ELSE U8(blen - bstart)

circular_buffer_len(bstart, bend, blen) ==
    IF bstart <= bend THEN U8(bend - bstart) ELSE U8((blen - bstart) + bend)

\* circular_buffer_write that copies what fits between end and start before it
\* finds that the payload does not fit
circular_buffer_write_PartialOnFull(bstart, bend, b, blen, src) ==
    LET len == Len(src) IN
    IF bstart <= bend
    THEN LET avaliable_continous_back == U8(blen - bend)
             avaliable_continous_front == bstart
         IN  IF avaliable_continous_back + avaliable_continous_front < len
             THEN [status |-> FULL, end |-> bend, buf |-> b]
             ELSE IF len <= avaliable_continous_back
             THEN [status |-> OK, end |-> U8(bend + len),
                   buf |-> Memcpy(b, bend, src)]
             ELSE [status |-> OK, end |-> U8(len - avaliable_continous_back),
                   buf |-> Memcpy(Memcpy(b, bend,
                                         SubSeq(src, 1, avaliable_continous_back)),
                                  0,
                                  SubSeq(src, avaliable_continous_back + 1, len))]
    ELSE LET avaliable_continous == U8(bstart - bend)
         IN  IF avaliable_continous < len
             THEN [status |-> FULL, end |-> bend,
                   buf |-> Memcpy(b, bend, SubSeq(src, 1, avaliable_continous))]
             ELSE [status |-> OK, end |-> U8(bend + len),
                   buf |-> Memcpy(b, bend, src)]

\* circular_buffer_write: the status returned, the end stored and the storage
circular_buffer_write(bstart, bend, b, blen, src) ==
    LET len == Len(src) IN
    IF bstart <= bend
    THEN LET avaliable_continous_back == U8(blen - bend)
             avaliable_continous_front == bstart
         IN  IF avaliable_continous_back + avaliable_continous_front < len
             THEN [status |-> FULL, end |-> bend, buf |-> b]
             ELSE IF len <= avaliable_continous_back
             THEN [status |-> OK, end |-> U8(bend + len),
                   buf |-> Memcpy(b, bend, src)]
             ELSE [status |-> OK, end |-> U8(len - avaliable_continous_back),
                   buf |-> Memcpy(Memcpy(b, bend,
                                         SubSeq(src, 1, avaliable_continous_back)),
                                  0,
                                  SubSeq(src, avaliable_continous_back + 1, len))]
    ELSE LET avaliable_continous == U8(bstart - bend)
         IN  IF avaliable_continous < len
             THEN [status |-> FULL, end |-> bend, buf |-> b]
             ELSE [status |-> OK, end |-> U8(bend + len),
                   buf |-> Memcpy(b, bend, src)]

\* circular_buffer_advance without the saturation of amount
circular_buffer_advance_NoSaturation(amount, bstart, bend, blen) ==
    IF bstart <= bend
    THEN [amount |-> amount, start |-> U8(bstart + amount)]
    ELSE [amount |-> amount, start |-> U8((bstart + amount) % blen)]

\* circular_buffer_advance without the modulo of the wrapped case
circular_buffer_advance_NoModulo(amount, bstart, bend, blen) ==
    IF bstart <= bend
    THEN LET a == U8(IF amount <= bend - bstart THEN amount ELSE bend - bstart)
         IN  [amount |-> a, start |-> U8(bstart + a)]
    ELSE LET a == U8(IF amount <= blen - bstart + bend
                     THEN amount ELSE blen - bstart + bend)
         IN  [amount |-> a, start |-> U8(bstart + a)]

\* circular_buffer_advance: the saturated amount and the start it stores
circular_buffer_advance(amount, bstart, bend, blen) ==
    IF bstart <= bend
    THEN LET a == U8(IF amount <= bend - bstart THEN amount ELSE bend - bstart)
         IN  [amount |-> a, start |-> U8(bstart + a)]
    ELSE LET a == U8(IF amount <= blen - bstart + bend
                     THEN amount ELSE blen - bstart + bend)
         IN  [amount |-> a, start |-> U8((bstart + a) % blen)]

\* _circular_buffer_read: the count returned, the bytes copied to dest (the
\* first memcpy copies `back` of them) and the start the buffer has afterwards
circular_buffer_read_impl(max_len, bstart, bend, b, blen, advance) ==
    IF bstart = bend
    THEN [ret |-> 0, back |-> 0, dest |-> << >>, start |-> bstart]
    ELSE IF bstart < bend
    THEN LET read_len == U8(IF bend - bstart < max_len
                            THEN bend - bstart ELSE max_len)
         IN  [ret |-> read_len,
              back |-> read_len,
              dest |-> Slice(b, bstart, read_len),
              start |-> IF advance THEN U8(bstart + read_len) ELSE bstart]
    ELSE LET read_len_back == U8(IF blen - bstart < max_len
                                 THEN blen - bstart ELSE max_len)
             read_len_front == U8(IF bend < max_len - read_len_back
                                  THEN bend ELSE max_len - read_len_back)
         IN  [ret |-> U8(read_len_back + read_len_front),
              back |-> read_len_back,
              dest |-> Slice(b, bstart, read_len_back)
                         \o Slice(b, 0, read_len_front),
              start |-> IF advance
                        THEN U8((bstart + read_len_back + read_len_front) % blen)
                        ELSE bstart]

\* circular_buffer_read that passes advance = true
circular_buffer_read_Advancing(max_len, bstart, bend, b, blen) ==
    circular_buffer_read_impl(max_len, bstart, bend, b, blen, TRUE)

circular_buffer_read(max_len, bstart, bend, b, blen) ==
    circular_buffer_read_impl(max_len, bstart, bend, b, blen, FALSE)

\* circular_buffer_read_and_advance that passes advance = false
circular_buffer_read_and_advance_NoAdvance(max_len, bstart, bend, b, blen) ==
    circular_buffer_read_impl(max_len, bstart, bend, b, blen, FALSE)

circular_buffer_read_and_advance(max_len, bstart, bend, b, blen) ==
    circular_buffer_read_impl(max_len, bstart, bend, b, blen, TRUE)

\* ------------------------------------------------------------------------
\* History: what a FIFO of the accepted bytes would hold
\* ------------------------------------------------------------------------

Drop(s, k) == SubSeq(s, Min(k, Len(s)) + 1, Len(s))

Take(s, k) == SubSeq(s, 1, Min(k, Len(s)))

\* the logical content of the buffer: the bytes from start to end, wrapping
Content ==
    LET n == circular_buffer_len(start, end, buflen)
    IN  [i \in 1..n |-> buf[(start + i - 1) % buflen]]

\* ------------------------------------------------------------------------
\* The circular buffer used by one caller, each call taken as a whole
\* ------------------------------------------------------------------------

Payloads == SeqsUpTo(ByteVals, MaxWriteLen)

Amounts == (0..MaxAmount) \cup {U8Mod - 1}

NoResult ==
    [op |-> "init", status |-> "none", arg |-> 0, ret |-> 0, dest |-> << >>,
     pre |-> 0, isr |-> 0]

InitBufferAt(cap, at) ==
    /\ start = at
    /\ end = at
    /\ buflen = cap
    /\ buf = [i \in 0..(cap - 1) |-> 0]

InitBuffer(cap) ==
    /\ start = 0
    /\ end = 0
    /\ buflen = cap
    /\ buf = [i \in 0..(cap - 1) |-> 0]

InitHistory ==
    /\ fifo = << >>
    /\ overflowed = FALSE
    /\ stream = << >>
    /\ res = NoResult

\* no foreground call into the buffer is in progress
InitForeground ==
    /\ cpc = "idle"
    /\ cop = "none"
    /\ carg = 0
    /\ cmark = 0
    /\ l_bstart = 0
    /\ l_bend = 0
    /\ dest = << >>

Write(src) ==
    LET w == circular_buffer_write(start, end, buf, buflen, src) IN
    /\ Len(fifo) + Len(src) <= MaxFifo
    /\ end' = w.end
    /\ buf' = w.buf
    /\ fifo' = IF w.status = OK THEN fifo \o src ELSE fifo
    /\ overflowed' = (overflowed \/ Len(fifo') > buflen - 1)
    /\ res' = [op |-> "write", status |-> w.status, arg |-> Len(src), ret |-> 0,
               dest |-> << >>, pre |-> circular_buffer_len(start, end, buflen),
               isr |-> 0]
    /\ UNCHANGED <<start, buflen, stream, fgVars, rdVars,
                   txVars, twiVars>>

Read(max_len) ==
    LET r == circular_buffer_read(max_len, start, end, buf, buflen) IN
    /\ start' = r.start
    /\ res' = [op |-> "read", status |-> "none", arg |-> max_len, ret |-> r.ret,
               dest |-> r.dest, pre |-> circular_buffer_len(start, end, buflen),
               isr |-> 0]
    /\ UNCHANGED <<end, buf, buflen, fifo, overflowed, stream, fgVars, rdVars,
                   txVars, twiVars>>

ReadAndAdvance(max_len) ==
    LET r == circular_buffer_read_and_advance(max_len, start, end, buf, buflen) IN
    /\ start' = r.start
    /\ fifo' = Drop(fifo, r.ret)
    /\ res' = [op |-> "read_and_advance", status |-> "none", arg |-> max_len,
               ret |-> r.ret, dest |-> r.dest,
               pre |-> circular_buffer_len(start, end, buflen), isr |-> 0]
    /\ UNCHANGED <<end, buf, buflen, overflowed, stream, fgVars, rdVars,
                   txVars, twiVars>>

\* advance that also moves end to the new start
Advance_MovesEnd(amount) ==
    /\ start' = circular_buffer_advance(amount, start, end, buflen).start
    /\ end' = start'
    /\ fifo' = Drop(fifo, amount)
    /\ res' = [op |-> "advance", status |-> "none", arg |-> amount, ret |-> 0,
               dest |-> << >>, pre |-> circular_buffer_len(start, end, buflen),
               isr |-> 0]
    /\ UNCHANGED <<buf, buflen, overflowed, stream, fgVars, rdVars,
                   txVars, twiVars>>

Advance(amount) ==
    /\ start' = circular_buffer_advance(amount, start, end, buflen).start
    /\ fifo' = Drop(fifo, amount)
    /\ res' = [op |-> "advance", status |-> "none", arg |-> amount, ret |-> 0,
               dest |-> << >>, pre |-> circular_buffer_len(start, end, buflen),
               isr |-> 0]
    /\ UNCHANGED <<end, buf, buflen, overflowed, stream, fgVars, rdVars,
                   txVars, twiVars>>

Length ==
    /\ res' = [op |-> "len", status |-> "none", arg |-> 0,
               ret |-> circular_buffer_len(start, end, buflen), dest |-> << >>,
               pre |-> circular_buffer_len(start, end, buflen), isr |-> 0]
    /\ UNCHANGED <<start, end, buf, buflen, fifo, overflowed, stream, fgVars,
                   rdVars,
                   txVars, twiVars>>

\* no call of the stream reader is in progress
InitReaderIdle ==
    /\ pc = "idle"
    /\ needle = << >>
    /\ slen = 0
    /\ recv_buf = << >>
    /\ total_recv_bytes = 0
    /\ recv_bytes = 0
    /\ match = -1

\* no call of usart_send_bytes is in progress and nothing is being sent
InitSenderIdle ==
    /\ tpc = "idle"
    /\ tsrc = << >>
    /\ t_bstart = 0
    /\ t_bend = 0
    /\ usart_is_sending = FALSE
    /\ udrie = FALSE
    /\ wire = << >>
    /\ submitted = << >>
    /\ refused = FALSE

\* the TWI engine after init_twi(), with no call in progress
InitTwi ==
    /\ twi_state = "IDLE"
    /\ twi_addr = 0
    /\ twi_buf_index = 0
    /\ twi_buf = "null"
    /\ twi_buf_len = 0
    /\ twint = FALSE
    /\ twie = TRUE
    /\ tw_status = "TW_NO_INFO"
    /\ twdr = U8Mod - 1
    /\ phase = "none"
    /\ bus = << >>
    /\ isr_seen = "none"
    /\ sreg_i = TRUE
    /\ ubuf = [i \in 0..(MaxTwiLen - 1) |-> i + 1]
    /\ apc = "idle"
    /\ a_addr = 0
    /\ a_len = 0
    /\ a_buf = "null"
    /\ sbuf = << >>
    /\ bpc = "idle"
    /\ b_addr = 0
    /\ b_len = 0
    /\ b_i = 0
    /\ twi_calls = 0
    /\ overlapped = FALSE

Init ==
    /\ InitBuffer(CAP)
    /\ InitHistory
    /\ InitForeground
    /\ InitReaderIdle
    /\ InitSenderIdle
    /\ InitTwi

Next ==
    \/ \E src \in Payloads : Write(src)
    \/ \E max_len \in Amounts : Read(max_len)
    \/ \E max_len \in Amounts : ReadAndAdvance(max_len)
    \/ \E amount \in Amounts : Advance(amount)
    \/ Length

Spec == Init /\ [][Next]_vars

\* ------------------------------------------------------------------------
\* The receive direction: a foreground call into the buffer, taken one load,
\* copy and store at a time, and the receive interrupt, which writes one byte
\* and runs to completion between any two of these steps
\* ------------------------------------------------------------------------

\* the number of bytes the receive interrupt delivers
MaxRx == CAP + 1

ForegroundOps == {"read", "read_and_advance", "advance", "len"}

\* ISR(USART0_RX_vect): one byte from the data register is written to the
\* buffer; a foreground that sleeps in sleep_mode() resumes when it returns
RxISR(val) ==
    LET w == circular_buffer_write(start, end, buf, buflen, <<val>>) IN
    /\ stream' = Append(stream, val)
    /\ end' = w.end
    /\ buf' = w.buf
    /\ fifo' = IF w.status = OK THEN Append(fifo, val) ELSE fifo
    /\ overflowed' = (overflowed \/ w.status = FULL \/ Len(fifo') > buflen - 1)
    /\ pc' = IF pc = "sleep" THEN "read" ELSE pc
    /\ UNCHANGED <<start, buflen, res, fgVars, needle, slen, recv_buf,
                   total_recv_bytes, recv_bytes, match,
                   txVars, twiVars>>

\* the foreground calls one of the four consumer functions
FgCall(op, arg) ==
    /\ cpc = "idle"
    /\ cpc' = "load_start"
    /\ cop' = op
    /\ carg' = arg
    /\ cmark' = Len(stream)
    /\ res' = NoResult
    /\ UNCHANGED <<rbVars, histVars, stream, l_bstart, l_bend, dest, rdVars,
                   txVars, twiVars>>

\* uint8_t bstart = buf->start
FgLoadStart ==
    /\ cpc = "load_start"
    /\ l_bstart' = start
    /\ cpc' = "load_end"
    /\ UNCHANGED <<rbVars, histVars, res, stream, cop, carg, cmark, l_bend, dest,
                   rdVars,
                   txVars, twiVars>>

\* uint8_t bend = buf->end, and the branch taken on the two locals
FgLoadEnd ==
    /\ cpc = "load_end"
    /\ l_bend' = end
    /\ cpc' = IF cop = "len" THEN "return"
              ELSE IF cop = "advance" THEN "store_start"
              ELSE IF l_bstart = end THEN "return"
              ELSE "copy"
    /\ UNCHANGED <<rbVars, histVars, res, stream, cop, carg, cmark, l_bstart, dest,
                   rdVars,
                   txVars, twiVars>>

\* the first memcpy of _circular_buffer_read, from buf->buf + bstart
FgCopy ==
    LET r == circular_buffer_read_impl(carg, l_bstart, l_bend, buf, buflen,
                                       cop = "read_and_advance")
    IN  /\ cpc = "copy"
        /\ dest' = SubSeq(r.dest, 1, r.back)
        /\ cpc' = IF l_bstart > l_bend THEN "copy_front"
                  ELSE IF cop = "read_and_advance" THEN "store_start"
                  ELSE "return"
        /\ UNCHANGED <<rbVars, histVars, res, stream, cop, carg, cmark,
                       l_bstart, l_bend, rdVars,
                       txVars, twiVars>>

\* the second memcpy of the wrapped case, from buf->buf
FgCopyFront ==
    LET r == circular_buffer_read_impl(carg, l_bstart, l_bend, buf, buflen,
                                       cop = "read_and_advance")
    IN  /\ cpc = "copy_front"
        /\ dest' = dest \o SubSeq(r.dest, r.back + 1, r.ret)
        /\ cpc' = IF cop = "read_and_advance" THEN "store_start" ELSE "return"
        /\ UNCHANGED <<rbVars, histVars, res, stream, cop, carg, cmark,
                       l_bstart, l_bend, rdVars,
                       txVars, twiVars>>

\* the frame of the call is popped
FgPop ==
    /\ cpc' = "idle"
    /\ cop' = "none"
    /\ carg' = 0
    /\ cmark' = 0
    /\ l_bstart' = 0
    /\ l_bend' = 0
    /\ dest' = << >>

\* what the call returns to its caller
FgResult(ret) ==
    [op |-> cop, status |-> "none", arg |-> carg, ret |-> ret, dest |-> dest,
     pre |-> circular_buffer_len(l_bstart, l_bend, buflen),
     isr |-> Len(stream) - cmark]

\* the store of buf->start computed from buf->end as it is at the store, not
\* from the bend loaded before the copies
FgStoreStart_ReloadsEnd ==
    LET a == circular_buffer_advance(carg, l_bstart, end, buflen)
        r == circular_buffer_read_impl(carg, l_bstart, end, buf, buflen, TRUE)
        n == IF cop = "advance" THEN a.amount ELSE r.ret
    IN  /\ cpc = "store_start"
        /\ start' = IF cop = "advance" THEN a.start ELSE r.start
        /\ fifo' = Drop(fifo, n)
        /\ res' = FgResult(IF cop = "advance" THEN 0 ELSE r.ret)
        /\ FgPop
        /\ UNCHANGED <<end, buf, buflen, overflowed, stream, rdVars,
                       txVars, twiVars>>

\* buf->start = ..., the last step of advance and of read_and_advance
FgStoreStart ==
    LET a == circular_buffer_advance(carg, l_bstart, l_bend, buflen)
        r == circular_buffer_read_impl(carg, l_bstart, l_bend, buf, buflen, TRUE)
        n == IF cop = "advance" THEN a.amount ELSE r.ret
    IN  /\ cpc = "store_start"
        /\ start' = IF cop = "advance" THEN a.start ELSE r.start
        /\ fifo' = Drop(fifo, n)
        /\ res' = FgResult(IF cop = "advance" THEN 0 ELSE r.ret)
        /\ FgPop
        /\ UNCHANGED <<end, buf, buflen, overflowed, stream, rdVars,
                       txVars, twiVars>>

\* the return of len, of read, and of a read_and_advance that found no bytes
FgReturn ==
    /\ cpc = "return"
    /\ res' = FgResult(IF cop = "len"
                       THEN circular_buffer_len(l_bstart, l_bend, buflen)
                       ELSE Len(dest))
    /\ FgPop
    /\ UNCHANGED <<rbVars, histVars, stream, rdVars,
                   txVars, twiVars>>

\* the receive interrupt between the steps of the foreground calls
FgRx(val) ==
    /\ Len(stream) < MaxRx
    /\ RxISR(val)

NextRx ==
    \/ \E val \in ByteVals : FgRx(val)
    \/ \E op \in ForegroundOps, arg \in Amounts : FgCall(op, arg)
    \/ FgLoadStart
    \/ FgLoadEnd
    \/ FgCopy
    \/ FgCopyFront
    \/ FgStoreStart
    \/ FgReturn

SpecRx == Init /\ [][NextRx]_vars

\* ------------------------------------------------------------------------
\* The delimited stream reader of usart.h on the receive buffer, with the
\* receive interrupt running between its calls into the buffer
\* ------------------------------------------------------------------------

\* len of usart_recv_take_until_blocking
TakeLen == 4
\* len of usart_recv_drop_until_blocking
DropLen == 4
\* the number of bytes the receive interrupt delivers during a call
MaxTakeStream == TakeLen + 1

MaxDropStream == DropLen + 1

RX_BUFFER_SIZE == 32

\* the values of received bytes; needles are strings over the non-zero ones
RxVals == {0} \cup ByteVals

Needles == {<<1, 2>>, <<1, 1>>}

\* positions at which the call finds the cursors of the empty receive buffer
ReaderStarts == {0, RX_BUFFER_SIZE - 2}

\* a byte of the scratch buffer that nothing was stored to
Uninit == U8Mod - 1

\* strlen of the string in b: the index of its first NUL
Strlen(b) == CHOOSE i \in DOMAIN b : b[i] = 0 /\ \A j \in DOMAIN b : j < i => b[j] # 0

\* the offsets in 0..last at which ndl occurs in the array or sequence b whose
\* first element has index first
Occurrences(b, first, last, ndl) ==
    {i \in 0..(last - Len(ndl) + 1) :
        \A k \in 1..Len(ndl) : b[first + i + k - 1] = ndl[k]}

SetMin(S) == CHOOSE x \in S : \A y \in S : x <= y

\* strstr(recv_buf, needle) - recv_buf, or -1 for a null result
Strstr(b, ndl) ==
    LET occ == Occurrences(b, 0, Strlen(b) - 1, ndl)
    IN  IF occ = {} THEN -1 ELSE SetMin(occ)

\* a compaction that leaves the bytes of recv_buf where they are
Memmove_Nothing(b, from, n) == b

\* memmove(b, b + from, n)
Memmove(b, from, n) ==
    [i \in DOMAIN b |-> IF i < n THEN b[from + i] ELSE b[i]]

\* history: the number of bytes removed from the receive buffer
Removed == Len(stream) - Len(fifo)

InitReader(fn_len) ==
    /\ pc = "read"
    /\ needle \in Needles
    /\ slen = fn_len
    /\ recv_buf = [i \in 0..(fn_len - 1) |-> Uninit]
    /\ total_recv_bytes = 0
    /\ recv_bytes = 0
    /\ match = -1

ReaderResult(op, ret) ==
    [op |-> op, status |-> "none", arg |-> slen, ret |-> ret, dest |-> << >>,
     pre |-> Removed, isr |-> 0]

\* the head of the loop reading up to len - total_recv_bytes bytes, which
\* leaves no room for the NUL
ReaderRead_NoRoomForNul ==
    LET r == circular_buffer_read(U8(slen - total_recv_bytes),
                                  start, end, buf, buflen)
        total == U8(total_recv_bytes + r.ret)
    IN  /\ pc = "read"
        /\ start' = r.start
        /\ recv_bytes' = r.ret
        /\ total_recv_bytes' = total
        /\ recv_buf' = [Memcpy(recv_buf, total_recv_bytes, r.dest)
                           EXCEPT ![total] = 0]
        /\ pc' = "search"
        /\ UNCHANGED <<end, buf, buflen, histVars, res, stream, fgVars,
                       needle, slen, match,
                       txVars, twiVars>>

\* the head of the loop of both functions: circular_buffer_read into
\* recv_buf + total_recv_bytes, and the NUL stored after the bytes read
ReaderRead ==
    LET r == circular_buffer_read(U8(slen - 1 - total_recv_bytes),
                                  start, end, buf, buflen)
        total == U8(total_recv_bytes + r.ret)
    IN  /\ pc = "read"
        /\ start' = r.start
        /\ recv_bytes' = r.ret
        /\ total_recv_bytes' = total
        /\ recv_buf' = [Memcpy(recv_buf, total_recv_bytes, r.dest)
                           EXCEPT ![total] = 0]
        /\ pc' = "search"
        /\ UNCHANGED <<end, buf, buflen, histVars, res, stream, fgVars,
                       needle, slen, match,
                       txVars, twiVars>>

\* take_until that advances to the start of the needle, as drop_until does
TakeSearch_StopsAtNeedle ==
    LET p == Strstr(recv_buf, needle)
        amount == IF p >= 0
                  THEN U8(p - (total_recv_bytes - recv_bytes))
                  ELSE recv_bytes
        a == circular_buffer_advance(amount, start, end, buflen)
    IN  /\ pc = "search"
        /\ start' = a.start
        /\ fifo' = Drop(fifo, a.amount)
        /\ IF p >= 0
           THEN /\ pc' = "done"
                /\ match' = p
                /\ res' = ReaderResult("take_until", p)
           ELSE IF total_recv_bytes >= slen - 1
           THEN /\ pc' = "done"
                /\ res' = ReaderResult("take_until", total_recv_bytes)
                /\ UNCHANGED match
           ELSE /\ pc' = IF recv_bytes = 0 THEN "sleep" ELSE "read"
                /\ UNCHANGED <<res, match>>
        /\ UNCHANGED <<end, buf, buflen, overflowed, stream, fgVars, needle,
                       slen, recv_buf, total_recv_bytes, recv_bytes,
                       txVars, twiVars>>

\* take_until that gives up on a full recv_buf before it advances past the
\* bytes of the last read
TakeSearch_GivesUpBeforeAdvance ==
    LET p == Strstr(recv_buf, needle)
        full == p < 0 /\ total_recv_bytes >= slen - 1
        amount == IF p >= 0
                  THEN U8(p - (total_recv_bytes - recv_bytes) + Len(needle))
                  ELSE IF full THEN 0 ELSE recv_bytes
        a == circular_buffer_advance(amount, start, end, buflen)
    IN  /\ pc = "search"
        /\ start' = a.start
        /\ fifo' = Drop(fifo, a.amount)
        /\ IF p >= 0
           THEN /\ pc' = "done"
                /\ match' = p
                /\ res' = ReaderResult("take_until", p)
           ELSE IF full
           THEN /\ pc' = "done"
                /\ res' = ReaderResult("take_until", total_recv_bytes)
                /\ UNCHANGED match
           ELSE /\ pc' = IF recv_bytes = 0 THEN "sleep" ELSE "read"
                /\ UNCHANGED <<res, match>>
        /\ UNCHANGED <<end, buf, buflen, overflowed, stream, fgVars, needle,
                       slen, recv_buf, total_recv_bytes, recv_bytes,
                       txVars, twiVars>>

\* take_until that returns the offset of the end of the needle
TakeSearch_ReturnsEndOfNeedle ==
    LET p == Strstr(recv_buf, needle)
        amount == IF p >= 0
                  THEN U8(p - (total_recv_bytes - recv_bytes) + Len(needle))
                  ELSE recv_bytes
        a == circular_buffer_advance(amount, start, end, buflen)
    IN  /\ pc = "search"
        /\ start' = a.start
        /\ fifo' = Drop(fifo, a.amount)
        /\ IF p >= 0
           THEN /\ pc' = "done"
                /\ match' = p
                /\ res' = ReaderResult("take_until", p + Len(needle))
           ELSE IF total_recv_bytes >= slen - 1
           THEN /\ pc' = "done"
                /\ res' = ReaderResult("take_until", total_recv_bytes)
                /\ UNCHANGED match
           ELSE /\ pc' = IF recv_bytes = 0 THEN "sleep" ELSE "read"
                /\ UNCHANGED <<res, match>>
        /\ UNCHANGED <<end, buf, buflen, overflowed, stream, fgVars, needle,
                       slen, recv_buf, total_recv_bytes, recv_bytes,
                       txVars, twiVars>>

\* usart_recv_take_until_blocking from strstr to the end of the iteration
TakeSearch ==
    LET p == Strstr(recv_buf, needle)
        amount == IF p >= 0
                  THEN U8(p - (total_recv_bytes - recv_bytes) + Len(needle))
                  ELSE recv_bytes
        a == circular_buffer_advance(amount, start, end, buflen)
    IN  /\ pc = "search"
        /\ start' = a.start
        /\ fifo' = Drop(fifo, a.amount)
        /\ IF p >= 0
           THEN /\ pc' = "done"
                /\ match' = p
                /\ res' = ReaderResult("take_until", p)
           ELSE IF total_recv_bytes >= slen - 1
           THEN /\ pc' = "done"
                /\ res' = ReaderResult("take_until", total_recv_bytes)
                /\ UNCHANGED match
           ELSE /\ pc' = IF recv_bytes = 0 THEN "sleep" ELSE "read"
                /\ UNCHANGED <<res, match>>
        /\ UNCHANGED <<end, buf, buflen, overflowed, stream, fgVars, needle,
                       slen, recv_buf, total_recv_bytes, recv_bytes,
                       txVars, twiVars>>

\* drop_until that advances past the needle, as take_until does
DropSearch_AdvancesPastNeedle ==
    LET p == Strstr(recv_buf, needle)
        needle_len == Len(needle)
        amount == IF p >= 0
                  THEN U8(p - (total_recv_bytes - recv_bytes) + needle_len)
                  ELSE recv_bytes
        a == circular_buffer_advance(amount, start, end, buflen)
    IN  /\ pc = "search"
        /\ start' = a.start
        /\ fifo' = Drop(fifo, a.amount)
        /\ IF p >= 0
           THEN /\ pc' = "done"
                /\ match' = Removed + recv_bytes - total_recv_bytes + p
                /\ res' = ReaderResult("drop_until", 0)
                /\ UNCHANGED <<recv_buf, total_recv_bytes>>
           ELSE /\ IF total_recv_bytes >= slen - 1
                   THEN /\ total_recv_bytes' = needle_len
                        /\ recv_buf' = Memmove(recv_buf, slen - 1 - needle_len,
                                               needle_len)
                   ELSE UNCHANGED <<recv_buf, total_recv_bytes>>
                /\ pc' = IF recv_bytes = 0 THEN "sleep" ELSE "read"
                /\ UNCHANGED <<res, match>>
        /\ UNCHANGED <<end, buf, buflen, overflowed, stream, fgVars, needle,
                       slen, recv_bytes,
                       txVars, twiVars>>

\* usart_recv_drop_until_blocking from strstr to the end of the iteration
DropSearch ==
    LET p == Strstr(recv_buf, needle)
        needle_len == Len(needle)
        amount == IF p >= 0
                  THEN U8(p - (total_recv_bytes - recv_bytes))
                  ELSE recv_bytes
        a == circular_buffer_advance(amount, start, end, buflen)
    IN  /\ pc = "search"
        /\ start' = a.start
        /\ fifo' = Drop(fifo, a.amount)
        /\ IF p >= 0
           THEN /\ pc' = "done"
                /\ match' = Removed + recv_bytes - total_recv_bytes + p
                /\ res' = ReaderResult("drop_until", 0)
                /\ UNCHANGED <<recv_buf, total_recv_bytes>>
           ELSE /\ IF total_recv_bytes >= slen - 1
                   THEN /\ total_recv_bytes' = needle_len
                        /\ recv_buf' = Memmove(recv_buf, slen - 1 - needle_len,
                                               needle_len)
                   ELSE UNCHANGED <<recv_buf, total_recv_bytes>>
                /\ pc' = IF recv_bytes = 0 THEN "sleep" ELSE "read"
                /\ UNCHANGED <<res, match>>
        /\ UNCHANGED <<end, buf, buflen, overflowed, stream, fgVars, needle,
                       slen, recv_bytes,
                       txVars, twiVars>>

\* sleep_mode() returns after an interrupt other than the receive interrupt
Wake ==
    /\ pc = "sleep"
    /\ pc' = "read"
    /\ UNCHANGED <<rbVars, histVars, res, stream, fgVars, needle, slen, recv_buf,
                   total_recv_bytes, recv_bytes, match,
                   txVars, twiVars>>

\* the receive interrupt while usart_recv_take_until_blocking runs
TakeRx(val) ==
    /\ pc # "done"
    /\ Len(stream) < MaxTakeStream
    /\ RxISR(val)

\* the receive interrupt while usart_recv_drop_until_blocking runs
DropRx(val) ==
    /\ pc # "done"
    /\ Len(stream) < MaxDropStream
    /\ RxISR(val)

InitTake ==
    /\ \E at \in ReaderStarts : InitBufferAt(RX_BUFFER_SIZE, at)
    /\ InitHistory
    /\ InitForeground
    /\ InitReader(TakeLen)
    /\ InitSenderIdle
    /\ InitTwi

NextTake ==
    \/ \E val \in RxVals : TakeRx(val)
    \/ ReaderRead
    \/ TakeSearch
    \/ Wake

SpecTake == InitTake /\ [][NextTake]_vars

InitDrop ==
    /\ \E at \in ReaderStarts : InitBufferAt(RX_BUFFER_SIZE, at)
    /\ InitHistory
    /\ InitForeground
    /\ InitReader(DropLen)
    /\ InitSenderIdle
    /\ InitTwi

NextDrop ==
    \/ \E val \in RxVals : DropRx(val)
    \/ ReaderRead
    \/ DropSearch
    \/ Wake

SpecDrop == InitDrop /\ [][NextDrop]_vars

\* either of the two functions is called; cop holds which one
InitReaders ==
    /\ \E at \in ReaderStarts : InitBufferAt(RX_BUFFER_SIZE, at)
    /\ InitHistory
    /\ cpc = "idle"
    /\ cop \in {"take_until", "drop_until"}
    /\ carg = 0
    /\ cmark = 0
    /\ l_bstart = 0
    /\ l_bend = 0
    /\ dest = << >>
    /\ InitReader(IF cop = "take_until" THEN TakeLen ELSE DropLen)
    /\ InitSenderIdle
    /\ InitTwi

NextReaders ==
    \/ cop = "take_until" /\ NextTake
    \/ cop = "drop_until" /\ NextDrop

SpecReaders == InitReaders /\ [][NextReaders]_vars

\* ------------------------------------------------------------------------
\* The send direction: usart_send_bytes, whose circular_buffer_write is taken
\* one load, copy and store at a time, and the data-register-empty interrupt,
\* which takes one byte out of the send buffer and runs to completion between
\* any two of these steps
\* ------------------------------------------------------------------------

\* the number of bytes handed to usart_send_bytes in a run
MaxTx == CAP + 2

\* the part of src that the first memcpy of circular_buffer_write copies to
\* buf->buf + bend
WriteBack(bstart, bend, blen, src) ==
    IF bstart <= bend /\ Len(src) > U8(blen - bend)
    THEN SubSeq(src, 1, U8(blen - bend))
    ELSE src

\* the part of src that the second memcpy copies to buf->buf
WriteFront(bstart, bend, blen, src) ==
    SubSeq(src, Len(WriteBack(bstart, bend, blen, src)) + 1, Len(src))

\* what the steps of usart_send_bytes leave alone besides the send buffer
senderRest == <<res, stream, fgVars, rdVars, twiVars>>

\* usart_send_bytes(buf, len) is called
SendBytes(src) ==
    /\ tpc = "idle"
    /\ Len(submitted) + Len(src) <= MaxTx
    /\ tpc' = "load_start"
    /\ tsrc' = src
    /\ submitted' = submitted \o src
    /\ UNCHANGED <<rbVars, histVars, t_bstart, t_bend, usart_is_sending, udrie,
                   wire, refused, senderRest>>

\* uint8_t bstart = buf->start
TxLoadStart ==
    /\ tpc = "load_start"
    /\ t_bstart' = start
    /\ tpc' = "load_end"
    /\ UNCHANGED <<rbVars, histVars, tsrc, t_bend, usart_is_sending, udrie,
                   wire, submitted, refused, senderRest>>

\* uint8_t bend = buf->end, and the check that the data fits
TxLoadEnd ==
    /\ tpc = "load_end"
    /\ t_bend' = end
    /\ tpc' = IF circular_buffer_write(t_bstart, end, buf, buflen, tsrc).status
                   = FULL
              THEN "sending"
              ELSE "copy"
    /\ refused' = (refused \/ tpc' = "sending")
    /\ UNCHANGED <<rbVars, histVars, tsrc, t_bstart, usart_is_sending, udrie,
                   wire, submitted, senderRest>>

\* memcpy(buf->buf + bend, src, ...)
TxCopy ==
    /\ tpc = "copy"
    /\ buf' = Memcpy(buf, t_bend, WriteBack(t_bstart, t_bend, buflen, tsrc))
    /\ tpc' = IF WriteFront(t_bstart, t_bend, buflen, tsrc) = << >>
              THEN "store_end"
              ELSE "copy_front"
    /\ UNCHANGED <<start, end, buflen, histVars, tsrc, t_bstart, t_bend,
                   usart_is_sending, udrie, wire, submitted, refused, senderRest>>

\* memcpy(buf->buf, src + avaliable_continous_back, ...)
TxCopyFront ==
    /\ tpc = "copy_front"
    /\ buf' = Memcpy(buf, 0, WriteFront(t_bstart, t_bend, buflen, tsrc))
    /\ tpc' = "store_end"
    /\ UNCHANGED <<start, end, buflen, histVars, tsrc, t_bstart, t_bend,
                   usart_is_sending, udrie, wire, submitted, refused, senderRest>>

\* buf->end = bend: the data is handed to the consumer
TxStoreEnd ==
    /\ tpc = "store_end"
    /\ end' = circular_buffer_write(t_bstart, t_bend, buf, buflen, tsrc).end
    /\ fifo' = fifo \o tsrc
    /\ overflowed' = (overflowed \/ Len(fifo') > buflen - 1)
    /\ tpc' = "sending"
    /\ UNCHANGED <<start, buf, buflen, tsrc, t_bstart, t_bend,
                   usart_is_sending, udrie, wire, submitted, refused, senderRest>>

\* _usart_is_sending = true
TxSetSending ==
    /\ tpc = "sending"
    /\ usart_is_sending' = TRUE
    /\ tpc' = "enable"
    /\ UNCHANGED <<rbVars, histVars, tsrc, t_bstart, t_bend, udrie, wire,
                   submitted, refused, senderRest>>

\* the return of usart_send_bytes without UCSR0B |= (1 << UDRIE0)
TxEnable_NoInterrupt ==
    /\ tpc = "enable"
    /\ tpc' = "idle"
    /\ tsrc' = << >>
    /\ t_bstart' = 0
    /\ t_bend' = 0
    /\ UNCHANGED <<rbVars, histVars, usart_is_sending, udrie, wire, submitted,
                   refused, senderRest>>

\* UCSR0B |= (1 << UDRIE0), and the return of usart_send_bytes
TxEnable ==
    /\ tpc = "enable"
    /\ udrie' = TRUE
    /\ tpc' = "idle"
    /\ tsrc' = << >>
    /\ t_bstart' = 0
    /\ t_bend' = 0
    /\ UNCHANGED <<rbVars, histVars, usart_is_sending, wire, submitted, refused, senderRest>>

\* ISR(USART0_UDRE_vect)
UdreISR ==
    LET r == circular_buffer_read_and_advance(1, start, end, buf, buflen) IN
    /\ udrie
    /\ start' = r.start
    /\ fifo' = Drop(fifo, r.ret)
    /\ wire' = wire \o r.dest
    /\ usart_is_sending' = (r.ret = 1)
    /\ udrie' = (r.ret = 1)
    /\ UNCHANGED <<end, buf, buflen, overflowed, tpc, tsrc, t_bstart, t_bend,
                   submitted, refused, senderRest>>

NextTx ==
    \/ \E src \in Payloads : SendBytes(src)
    \/ TxLoadStart
    \/ TxLoadEnd
    \/ TxCopy
    \/ TxCopyFront
    \/ TxStoreEnd
    \/ TxSetSending
    \/ TxEnable
    \/ UdreISR

SpecTx == Init /\ [][NextTx]_vars

\* usart_send_byte(byte) is called
SendByte(byte) ==
    /\ tpc = "idle"
    /\ Len(submitted) + 1 <= MaxTx
    /\ tpc' = "check_sending"
    /\ tsrc' = <<byte>>
    /\ submitted' = Append(submitted, byte)
    /\ UNCHANGED <<rbVars, histVars, t_bstart, t_bend, usart_is_sending, udrie,
                   wire, refused, senderRest>>

\* if (_usart_is_sending): the circular_buffer_write of the byte and the two
\* stores after it, which are the steps of usart_send_bytes, or
\* usart_send_byte_blocking(byte)
TxCheckSending ==
    /\ tpc = "check_sending"
    /\ tpc' = IF usart_is_sending THEN "load_start" ELSE "wait_sending"
    /\ UNCHANGED <<rbVars, histVars, tsrc, t_bstart, t_bend, usart_is_sending,
                   udrie, wire, submitted, refused, senderRest>>

\* usart_send_byte_blocking(byte) is called
SendByteBlocking(byte) ==
    /\ tpc = "idle"
    /\ Len(submitted) + 1 <= MaxTx
    /\ tpc' = "wait_sending"
    /\ tsrc' = <<byte>>
    /\ submitted' = Append(submitted, byte)
    /\ UNCHANGED <<rbVars, histVars, t_bstart, t_bend, usart_is_sending, udrie,
                   wire, refused, senderRest>>

\* usart_send_byte_blocking without while (_usart_is_sending)
TxWaitSending_NoWait ==
    /\ tpc = "wait_sending"
    /\ tpc' = "wait_udre"
    /\ UNCHANGED <<rbVars, histVars, tsrc, t_bstart, t_bend, usart_is_sending,
                   udrie, wire, submitted, refused, senderRest>>

\* the exit of while (_usart_is_sending)
TxWaitSending ==
    /\ tpc = "wait_sending"
    /\ ~usart_is_sending
    /\ tpc' = "wait_udre"
    /\ UNCHANGED <<rbVars, histVars, tsrc, t_bstart, t_bend, usart_is_sending,
                   udrie, wire, submitted, refused, senderRest>>

\* the exit of while (!(UCSR0A & (1 << UDRE0))), UDR0 = byte and the return
TxStoreUdr ==
    /\ tpc = "wait_udre"
    /\ wire' = wire \o tsrc
    /\ res' = [op |-> "usart_send_byte_blocking", status |-> "none",
               arg |-> tsrc[1], ret |-> 0, dest |-> << >>,
               pre |-> circular_buffer_len(start, end, buflen), isr |-> 0]
    /\ tpc' = "idle"
    /\ tsrc' = << >>
    /\ UNCHANGED <<rbVars, histVars, t_bstart, t_bend, usart_is_sending, udrie,
                   submitted, refused, stream, fgVars, rdVars, twiVars>>

\* the steps of the three send functions after their calls
TxStep ==
    \/ TxCheckSending
    \/ TxLoadStart
    \/ TxLoadEnd
    \/ TxCopy
    \/ TxCopyFront
    \/ TxStoreEnd
    \/ TxSetSending
    \/ TxEnable
    \/ TxWaitSending
    \/ TxStoreUdr

\* usart_send_bytes, usart_send_byte and usart_send_byte_blocking called one
\* after the other, and the data-register-empty interrupt between their steps
NextSend ==
    \/ \E src \in Payloads : SendBytes(src)
    \/ \E byte \in ByteVals : SendByte(byte)
    \/ \E byte \in ByteVals : SendByteBlocking(byte)
    \/ TxStep
    \/ UdreISR

SpecSend == Init /\ [][NextSend]_vars

\* no branch of the send direction depends on the value of a byte: one value
\* stands for all of them where only progress is of interest
LiveBytes == {SetMin(ByteVals)}

NextSendLive ==
    \/ \E src \in SeqsUpTo(LiveBytes, MaxWriteLen) : SendBytes(src)
    \/ \E byte \in LiveBytes : SendByte(byte)
    \/ \E byte \in LiveBytes : SendByteBlocking(byte)
    \/ TxStep
    \/ UdreISR

\* the data-register-empty interrupt is served while it is enabled, UDR0
\* becomes empty again after every store, and the foreground keeps running
\* while it is inside a send function
SpecSendLive ==
    Init /\ [][NextSendLive]_vars /\ WF_vars(UdreISR) /\ WF_vars(TxStep)

\* ------------------------------------------------------------------------
\* twi.h: the TWI engine.  The bus controller executes one phase per write
\* of TWCR and raises TWINT when the phase is finished; ISR(TWI_vect) is run
\* for a finished phase as the mock hardware of the design runs it, whether
\* or not the write of TWCR left TWIE set (twie records the bit).
\* ------------------------------------------------------------------------

\* the addresses passed to the transfer functions: (1 << 1) | TW_WRITE and
\* (1 << 1) | TW_READ
TwiAddrs == {2, 3}

\* the lengths passed to the transfer functions
TwiLens == 0..MaxTwiLen

\* the k-th data byte a device sends after the start condition
DeviceByte(k) == 2 + k

\* addr & TW_READ
IsRead(addr) == addr % 2 = 1

SentStates ==
    {"SENT_START", "SENT_READ_ADDR", "SENT_READ_DATA", "SENT_WRITE_ADDR",
     "SENT_WRITE_DATA"}

\* twi_status without the case BUSY_BLOCKING
twi_status_NoBusyCase(s) ==
    CASE s = "IDLE" -> "READY"
      [] s \in SentStates -> "PENDING"
      [] OTHER -> "ERROR"

\* twi_status(), as a function of _twi_state
twi_status(s) ==
    CASE s = "IDLE" -> "READY"
      [] s \in SentStates \cup {"BUSY_BLOCKING"} -> "PENDING"
      [] OTHER -> "ERROR"

\* the status codes with which the bus controller can finish a phase
Outcomes(ph) ==
    CASE ph = "start" -> {"TW_START", "TW_BUS_ERROR"}
      [] ph = "addr_w" -> {"TW_MT_SLA_ACK", "TW_MT_SLA_NACK"}
      [] ph = "addr_r" -> {"TW_MR_SLA_ACK", "TW_MR_SLA_NACK"}
      [] ph = "data_w" -> {"TW_MT_DATA_ACK", "TW_MT_DATA_NACK"}
      [] ph = "data_r" -> {"TW_MR_DATA_ACK", "TW_MR_DATA_NACK"}
      [] OTHER -> {}

\* the status code each state of the engine waits for
Expected(s) ==
    CASE s = "SENT_START" -> "TW_START"
      [] s = "SENT_WRITE_ADDR" -> "TW_MT_SLA_ACK"
      [] s = "SENT_WRITE_DATA" -> "TW_MT_DATA_ACK"
      [] s = "SENT_READ_ADDR" -> "TW_MR_SLA_ACK"
      [] s = "SENT_READ_DATA" -> "TW_MR_DATA_ACK"
      [] OTHER -> "none"

\* the phase the bus controller starts on a write of TWCR that has neither
\* TWSTA nor TWSTO: it follows from the phase that finished last
NextPhase(d) ==
    CASE tw_status = "TW_START" -> IF IsRead(d) THEN "addr_r" ELSE "addr_w"
      [] tw_status \in {"TW_MT_SLA_ACK", "TW_MT_DATA_ACK"} -> "data_w"
      [] tw_status \in {"TW_MR_SLA_ACK", "TW_MR_DATA_ACK"} -> "data_r"
      [] OTHER -> "none"

\* what a phase looks like on the bus
BusEntry(ph, d) ==
    CASE ph \in {"addr_r", "addr_w"} -> <<"ADDR", d>>
      [] ph = "data_w" -> <<"TX", d>>
      [] ph = "data_r" -> <<"RX", 0>>
      [] OTHER -> <<"NONE", 0>>

\* TWDR = d (when the code stores to it) and TWCR = (1 << TWINT) | (1 << TWEN)
\* with TWSTA or TWSTO or neither: TWINT is cleared, TWIE is written as 0 and
\* the bus controller starts the phase
Twcr(sta, sto, d) ==
    /\ twint' = FALSE
    /\ twie' = FALSE
    /\ twdr' = d
    /\ phase' = IF sta THEN "start" ELSE IF sto THEN "none" ELSE NextPhase(d)
    /\ bus' = IF sta THEN << <<"START", 0>> >>
              ELSE IF sto THEN Append(bus, <<"STOP", 0>>)
              ELSE Append(bus, BusEntry(NextPhase(d), d))
    /\ isr_seen' = "none"
    /\ UNCHANGED tw_status

\* the registers of the bus controller
hwVars == <<twint, twie, tw_status, twdr, phase, bus, isr_seen>>

\* the number of data bytes requested from the device since the start
Requested == Cardinality({i \in DOMAIN bus : bus[i][1] = "RX"})

\* the bus controller finishes the phase with status st; a data byte that was
\* received is in TWDR
HwComplete(st) ==
    /\ phase # "none"
    /\ st \in Outcomes(phase)
    /\ tw_status' = st
    /\ twint' = TRUE
    /\ twdr' = IF phase = "data_r" THEN DeviceByte(Requested) ELSE twdr
    /\ phase' = "none"
    /\ isr_seen' = "none"
    /\ UNCHANGED <<twie, bus, twi_state, twi_addr, twi_buf_index, twi_buf,
                   twi_buf_len, sreg_i, ubuf, apc, a_addr, a_len, bpc, b_addr,
                   b_len, b_i, twi_calls, overlapped,
                   a_buf, sbuf>>
    /\ UNCHANGED <<rbVars, histVars, res, stream, fgVars, rdVars, txVars>>

\* the completion handler reading _twi_buf[0] whatever the index is
BufRead_First(v) == IF 0 < twi_buf_len THEN ubuf[0] ELSE v

\* _twi_buf[_twi_buf_index] as the completion handler reads it; v is what
\* lies behind the caller's object
BufRead(v) ==
    IF twi_buf = "sbuf"
    THEN IF twi_buf_index < Len(sbuf) THEN sbuf[twi_buf_index + 1] ELSE v
    ELSE IF twi_buf_index < twi_buf_len THEN ubuf[twi_buf_index] ELSE v

\* _twi_buf[_twi_buf_index] = TWDR
BufWrite ==
    IF twi_buf_index < twi_buf_len
    THEN [ubuf EXCEPT ![twi_buf_index] = twdr]
    ELSE ubuf

\* ISR(TWI_vect) that takes the read branch for a write address and the write
\* branch for a read address
TwiISR_InvertedDirection(v) ==
    /\ twint
    /\ sreg_i
    /\ apc # "aborted"
    /\ CASE twi_state = "SENT_START" /\ tw_status = "TW_START" ->
                /\ Twcr(FALSE, FALSE, twi_addr)
                /\ twi_state' = IF IsRead(twi_addr) THEN "SENT_WRITE_ADDR"
                                ELSE "SENT_READ_ADDR"
                /\ UNCHANGED <<twi_buf_index, ubuf>>
         [] twi_state = "SENT_WRITE_ADDR" /\ tw_status = "TW_MT_SLA_ACK" ->
                /\ Twcr(FALSE, FALSE, BufRead(v))
                /\ twi_buf_index' = U8(twi_buf_index + 1)
                /\ twi_state' = "SENT_WRITE_DATA"
                /\ UNCHANGED ubuf
         [] twi_state = "SENT_WRITE_DATA" /\ tw_status = "TW_MT_DATA_ACK" ->
                IF twi_buf_index < twi_buf_len
                THEN /\ Twcr(FALSE, FALSE, BufRead(v))
                     /\ twi_buf_index' = U8(twi_buf_index + 1)
                     /\ UNCHANGED <<twi_state, ubuf>>
                ELSE /\ Twcr(FALSE, TRUE, twdr)
                     /\ twi_state' = "IDLE"
                     /\ UNCHANGED <<twi_buf_index, ubuf>>
         [] twi_state = "SENT_READ_ADDR" /\ tw_status = "TW_MR_SLA_ACK" ->
                /\ Twcr(FALSE, FALSE, twdr)
                /\ twi_state' = "SENT_READ_DATA"
                /\ UNCHANGED <<twi_buf_index, ubuf>>
         [] twi_state = "SENT_READ_DATA" /\ tw_status = "TW_MR_DATA_ACK" ->
                IF twi_buf_index < twi_buf_len
                THEN /\ ubuf' = BufWrite
                     /\ twi_buf_index' = U8(twi_buf_index + 1)
                     /\ Twcr(FALSE, FALSE, twdr)
                     /\ UNCHANGED twi_state
                ELSE /\ Twcr(FALSE, TRUE, twdr)
                     /\ twi_state' = "IDLE"
                     /\ UNCHANGED <<twi_buf_index, ubuf>>
         [] OTHER ->
                /\ isr_seen' = twi_state
                /\ UNCHANGED <<twi_state, twi_buf_index, ubuf, twint, twie,
                               tw_status, twdr, phase, bus>>
    /\ UNCHANGED <<twi_addr, twi_buf, twi_buf_len, sreg_i, apc, a_addr, a_len,
                   bpc, b_addr, b_len, b_i, twi_calls, overlapped,
                   a_buf, sbuf>>
    /\ UNCHANGED <<rbVars, histVars, res, stream, fgVars, rdVars, txVars>>

\* ISR(TWI_vect)
TwiISR(v) ==
    /\ twint
    /\ sreg_i
    /\ apc # "aborted"
    /\ CASE twi_state = "SENT_START" /\ tw_status = "TW_START" ->
                /\ Twcr(FALSE, FALSE, twi_addr)
                /\ twi_state' = IF IsRead(twi_addr) THEN "SENT_READ_ADDR"
                                ELSE "SENT_WRITE_ADDR"
                /\ UNCHANGED <<twi_buf_index, ubuf>>
         [] twi_state = "SENT_WRITE_ADDR" /\ tw_status = "TW_MT_SLA_ACK" ->
                /\ Twcr(FALSE, FALSE, BufRead(v))
                /\ twi_buf_index' = U8(twi_buf_index + 1)
                /\ twi_state' = "SENT_WRITE_DATA"
                /\ UNCHANGED ubuf
         [] twi_state = "SENT_WRITE_DATA" /\ tw_status = "TW_MT_DATA_ACK" ->
                IF twi_buf_index < twi_buf_len
                THEN /\ Twcr(FALSE, FALSE, BufRead(v))
                     /\ twi_buf_index' = U8(twi_buf_index + 1)
                     /\ UNCHANGED <<twi_state, ubuf>>
                ELSE /\ Twcr(FALSE, TRUE, twdr)
                     /\ twi_state' = "IDLE"
                     /\ UNCHANGED <<twi_buf_index, ubuf>>
         [] twi_state = "SENT_READ_ADDR" /\ tw_status = "TW_MR_SLA_ACK" ->
                /\ Twcr(FALSE, FALSE, twdr)
                /\ twi_state' = "SENT_READ_DATA"
                /\ UNCHANGED <<twi_buf_index, ubuf>>
         [] twi_state = "SENT_READ_DATA" /\ tw_status = "TW_MR_DATA_ACK" ->
                IF twi_buf_index < twi_buf_len
                THEN /\ ubuf' = BufWrite
                     /\ twi_buf_index' = U8(twi_buf_index + 1)
                     /\ Twcr(FALSE, FALSE, twdr)
                     /\ UNCHANGED twi_state
                ELSE /\ Twcr(FALSE, TRUE, twdr)
                     /\ twi_state' = "IDLE"
                     /\ UNCHANGED <<twi_buf_index, ubuf>>
         [] OTHER ->
                /\ isr_seen' = twi_state
                /\ UNCHANGED <<twi_state, twi_buf_index, ubuf, twint, twie,
                               tw_status, twdr, phase, bus>>
    /\ UNCHANGED <<twi_addr, twi_buf, twi_buf_len, sreg_i, apc, a_addr, a_len,
                   bpc, b_addr, b_len, b_i, twi_calls, overlapped,
                   a_buf, sbuf>>
    /\ UNCHANGED <<rbVars, histVars, res, stream, fgVars, rdVars, txVars>>

TwiResult(op, status, arg, ret) ==
    [op |-> op, status |-> status, arg |-> arg, ret |-> ret, dest |-> << >>,
     pre |-> 0, isr |-> 0]

\* twi_status()
TwiStatus ==
    /\ sreg_i
    /\ apc # "aborted"
    /\ res' = TwiResult("twi_status", twi_status(twi_state), 0, 0)
    /\ UNCHANGED <<rbVars, histVars, stream, fgVars, rdVars, txVars, twiVars>>

\* what the steps of twi_transfer leave alone besides the field they store
asyncFrame ==
    <<sreg_i, ubuf, a_addr, a_len, bpc, b_addr, b_len, b_i, twi_calls, overlapped,
                   a_buf, sbuf>>

\* twi_transfer is called between two other calls of the foreground; a call
\* that fails one of the two assertions ends the program
TwiTransfer(addr, len) ==
    /\ apc = "idle"
    /\ bpc = "idle"
    /\ twi_calls < MaxTwiCalls
    /\ twi_calls' = twi_calls + 1
    /\ overlapped' = (overlapped \/ twi_state # "IDLE")
    /\ IF len > 0 /\ twi_state # "BUSY_BLOCKING"
       THEN /\ apc' = "index"
            /\ a_addr' = addr
            /\ a_len' = len
            /\ a_buf' = "ubuf"
       ELSE /\ apc' = "aborted"
            /\ UNCHANGED <<a_addr, a_len, a_buf>>
    /\ res' = NoResult
    /\ UNCHANGED <<twi_state, twi_addr, twi_buf_index, twi_buf, twi_buf_len,
                   hwVars, sreg_i, ubuf, bpc, b_addr, b_len, b_i, sbuf>>
    /\ UNCHANGED <<rbVars, histVars, stream, fgVars, rdVars, txVars>>

\* _twi_buf_index = 0
TwiStoreIndex ==
    /\ apc = "index"
    /\ twi_buf_index' = 0
    /\ apc' = "buf"
    /\ UNCHANGED <<twi_state, twi_addr, twi_buf, twi_buf_len, hwVars, asyncFrame>>
    /\ UNCHANGED <<rbVars, histVars, res, stream, fgVars, rdVars, txVars>>

\* _twi_buf = buf
TwiStoreBuf ==
    /\ apc = "buf"
    /\ twi_buf' = a_buf
    /\ apc' = "len"
    /\ UNCHANGED <<twi_state, twi_addr, twi_buf_index, twi_buf_len, hwVars,
                   asyncFrame>>
    /\ UNCHANGED <<rbVars, histVars, res, stream, fgVars, rdVars, txVars>>

\* _twi_buf_len = len
TwiStoreLen ==
    /\ apc = "len"
    /\ twi_buf_len' = a_len
    /\ apc' = "addr"
    /\ UNCHANGED <<twi_state, twi_addr, twi_buf_index, twi_buf, hwVars,
                   asyncFrame>>
    /\ UNCHANGED <<rbVars, histVars, res, stream, fgVars, rdVars, txVars>>

\* _twi_addr = addr
TwiStoreAddr ==
    /\ apc = "addr"
    /\ twi_addr' = a_addr
    /\ apc' = "twcr"
    /\ UNCHANGED <<twi_state, twi_buf_index, twi_buf, twi_buf_len, hwVars,
                   asyncFrame>>
    /\ UNCHANGED <<rbVars, histVars, res, stream, fgVars, rdVars, txVars>>

\* TWCR = (1 << TWINT) + (1 << TWEN) + (1 << TWSTA)
TwiIssueStart ==
    /\ apc = "twcr"
    /\ Twcr(TRUE, FALSE, twdr)
    /\ apc' = "state"
    /\ UNCHANGED <<twi_state, twi_addr, twi_buf_index, twi_buf, twi_buf_len,
                   asyncFrame>>
    /\ UNCHANGED <<rbVars, histVars, res, stream, fgVars, rdVars, txVars>>

\* _twi_state = SENT_START, and the return of twi_transfer, to the foreground
\* or to twi_send
TwiStoreState ==
    /\ apc = "state"
    /\ twi_state' = "SENT_START"
    /\ apc' = IF a_buf = "sbuf" THEN "send_return" ELSE "idle"
    /\ a_addr' = 0
    /\ a_len' = 0
    /\ a_buf' = "null"
    /\ UNCHANGED <<twi_addr, twi_buf_index, twi_buf, twi_buf_len, hwVars,
                   sreg_i, ubuf, bpc, b_addr, b_len, b_i, twi_calls, overlapped,
                   sbuf>>
    /\ UNCHANGED <<rbVars, histVars, res, stream, fgVars, rdVars, txVars>>

\* what the steps of twi_transfer_blocking leave alone
blockingFrame == <<twi_addr, twi_buf_index, twi_buf, twi_buf_len, apc, a_addr,
                   a_len, b_addr, b_len, twi_calls, overlapped,
                   a_buf, sbuf>>

\* twi_transfer_blocking is called between two other calls of the foreground:
\* cli()
BlockingCall(addr, len) ==
    /\ bpc = "idle"
    /\ apc = "idle"
    /\ twi_calls < MaxTwiCalls
    /\ twi_calls' = twi_calls + 1
    /\ UNCHANGED overlapped
    /\ b_addr' = addr
    /\ b_len' = len
    /\ b_i' = 0
    /\ sreg_i' = FALSE
    /\ bpc' = "wait_idle"
    /\ res' = NoResult
    /\ UNCHANGED <<twi_state, twi_addr, twi_buf_index, twi_buf, twi_buf_len,
                   hwVars, ubuf, apc, a_addr, a_len, a_buf, sbuf>>
    /\ UNCHANGED <<rbVars, histVars, stream, fgVars, rdVars, txVars>>

\* the exit of while (_twi_state != IDLE), _twi_state = BUSY_BLOCKING, sei()
BlockingClaim ==
    /\ bpc = "wait_idle"
    /\ twi_state = "IDLE"
    /\ twi_state' = "BUSY_BLOCKING"
    /\ sreg_i' = TRUE
    /\ bpc' = "start"
    /\ UNCHANGED <<hwVars, ubuf, b_i, blockingFrame>>
    /\ UNCHANGED <<rbVars, histVars, res, stream, fgVars, rdVars, txVars>>

\* TWCR = (1 << TWINT) | (1 << TWEN) | (1 << TWSTA)
BlockingStart ==
    /\ bpc = "start"
    /\ Twcr(TRUE, FALSE, twdr)
    /\ bpc' = "wait_start"
    /\ UNCHANGED <<twi_state, sreg_i, ubuf, b_i, blockingFrame>>
    /\ UNCHANGED <<rbVars, histVars, res, stream, fgVars, rdVars, txVars>>

\* the head of the two for loops with the counter at i: the command for the
\* next data byte, or the stop condition after the last one
BlockingCommand(i) ==
    IF i < b_len
    THEN /\ Twcr(FALSE, FALSE, IF IsRead(b_addr) THEN twdr ELSE ubuf[i])
         /\ bpc' = "wait_data"
    ELSE /\ Twcr(FALSE, TRUE, twdr)
         /\ bpc' = "cleanup"

\* the start condition has been executed: goto cleanup, or the address
BlockingAfterStart ==
    /\ bpc = "wait_start"
    /\ twint
    /\ IF tw_status # "TW_START"
       THEN /\ bpc' = "cleanup"
            /\ UNCHANGED hwVars
       ELSE /\ Twcr(FALSE, FALSE, b_addr)
            /\ bpc' = "wait_addr"
    /\ UNCHANGED <<twi_state, sreg_i, ubuf, b_i, blockingFrame>>
    /\ UNCHANGED <<rbVars, histVars, res, stream, fgVars, rdVars, txVars>>

\* twi_transfer_blocking that returns from the address check without the
\* store at cleanup
BlockingAfterAddr_ReturnsOnNack ==
    /\ bpc = "wait_addr"
    /\ twint
    /\ IF tw_status # (IF IsRead(b_addr) THEN "TW_MR_SLA_ACK"
                       ELSE "TW_MT_SLA_ACK")
       THEN /\ bpc' = "idle"
            /\ UNCHANGED hwVars
       ELSE BlockingCommand(0)
    /\ b_i' = 0
    /\ UNCHANGED <<twi_state, sreg_i, ubuf, blockingFrame>>
    /\ UNCHANGED <<rbVars, histVars, res, stream, fgVars, rdVars, txVars>>

\* the address has been sent: goto cleanup, or the first pass of the loop
BlockingAfterAddr ==
    /\ bpc = "wait_addr"
    /\ twint
    /\ IF tw_status # (IF IsRead(b_addr) THEN "TW_MR_SLA_ACK"
                       ELSE "TW_MT_SLA_ACK")
       THEN /\ bpc' = "cleanup"
            /\ UNCHANGED hwVars
       ELSE BlockingCommand(0)
    /\ b_i' = 0
    /\ UNCHANGED <<twi_state, sreg_i, ubuf, blockingFrame>>
    /\ UNCHANGED <<rbVars, histVars, res, stream, fgVars, rdVars, txVars>>

\* a data byte has been transferred: goto cleanup, or buf[i] = TWDR when
\* reading, ++i and the next pass of the loop
BlockingAfterData ==
    /\ bpc = "wait_data"
    /\ twint
    /\ IF tw_status # (IF IsRead(b_addr) THEN "TW_MR_DATA_ACK"
                       ELSE "TW_MT_DATA_ACK")
       THEN /\ bpc' = "cleanup"
            /\ UNCHANGED <<hwVars, ubuf, b_i>>
       ELSE /\ ubuf' = IF IsRead(b_addr) THEN [ubuf EXCEPT ![b_i] = twdr]
                       ELSE ubuf
            /\ b_i' = b_i + 1
            /\ BlockingCommand(b_i + 1)
    /\ UNCHANGED <<twi_state, sreg_i, blockingFrame>>
    /\ UNCHANGED <<rbVars, histVars, stream, res, fgVars, rdVars, txVars>>

\* cleanup: _twi_state = IDLE, and the return of twi_transfer_blocking
BlockingCleanup ==
    /\ bpc = "cleanup"
    /\ twi_state' = "IDLE"
    /\ bpc' = "idle"
    /\ b_addr' = 0
    /\ b_len' = 0
    /\ b_i' = 0
    /\ res' = TwiResult("twi_transfer_blocking", tw_status, b_len, b_i)
    /\ UNCHANGED <<twi_addr, twi_buf_index, twi_buf, twi_buf_len, hwVars,
                   sreg_i, ubuf, apc, a_addr, a_len, twi_calls, overlapped,
                   a_buf, sbuf>>
    /\ UNCHANGED <<rbVars, histVars, stream, fgVars, rdVars, txVars>>

\* the bus controller finishes the phase it is executing
HwStep == \E st \in UNION {Outcomes(ph) : ph \in {"start", "addr_w", "addr_r",
                                                      "data_w", "data_r"}} :
              HwComplete(st)

\* the steps of twi_transfer_blocking after its call
BlockingStep ==
    \/ BlockingClaim
    \/ BlockingStart
    \/ BlockingAfterStart
    \/ BlockingAfterAddr
    \/ BlockingAfterData
    \/ BlockingCleanup

NextTwi ==
    \/ \E addr \in TwiAddrs, len \in TwiLens : TwiTransfer(addr, len)
    \/ TwiStoreIndex
    \/ TwiStoreBuf
    \/ TwiStoreLen
    \/ TwiStoreAddr
    \/ TwiIssueStart
    \/ TwiStoreState
    \/ \E v \in ByteVals : TwiISR(v)
    \/ TwiStatus
    \/ \E addr \in TwiAddrs, len \in TwiLens : BlockingCall(addr, len)
    \/ BlockingStep
    \/ HwStep

SpecTwi == Init /\ [][NextTwi]_vars

\* the steps of twi_transfer after its call
TwiTransferStep ==
    \/ TwiStoreIndex
    \/ TwiStoreBuf
    \/ TwiStoreLen
    \/ TwiStoreAddr
    \/ TwiIssueStart
    \/ TwiStoreState

\* the bus controller finishes every phase it was given, the foreground keeps
\* running while it is inside one of the two transfer functions, and the
\* completion handler runs when TWINT is set and interrupts are enabled
SpecTwiLive ==
    /\ Init /\ [][NextTwi]_vars
    /\ WF_vars(HwStep)
    /\ WF_vars(TwiTransferStep)
    /\ WF_vars(BlockingStep)
    /\ WF_vars(\E v \in ByteVals : TwiISR(v))

\* twi_transfer without assert(_twi_state != BUSY_BLOCKING), called from an
\* interrupt handler
TwiTransferNested_NoStateAssert(addr, len) ==
    /\ sreg_i
    /\ bpc # "idle"
    /\ apc = "idle"
    /\ twi_calls < MaxTwiCalls
    /\ twi_calls' = twi_calls + 1
    /\ overlapped' = (overlapped \/ twi_state # "IDLE")
    /\ IF len > 0
       THEN /\ twi_buf_index' = 0
            /\ twi_buf' = "ubuf"
            /\ twi_buf_len' = len
            /\ twi_addr' = addr
            /\ Twcr(TRUE, FALSE, twdr)
            /\ twi_state' = "SENT_START"
            /\ UNCHANGED apc
       ELSE /\ apc' = "aborted"
            /\ UNCHANGED <<twi_state, twi_addr, twi_buf_index, twi_buf,
                           twi_buf_len, hwVars>>
    /\ UNCHANGED <<sreg_i, ubuf, a_addr, a_len, bpc, b_addr, b_len, b_i,
                   a_buf, sbuf>>
    /\ UNCHANGED <<rbVars, histVars, res, stream, fgVars, rdVars, txVars>>

\* twi_transfer called from an interrupt handler while the foreground is
\* inside twi_transfer_blocking with interrupts enabled: the call runs from
\* its first line to its last, or to the assertion that fails
TwiTransferNested(addr, len) ==
    /\ sreg_i
    /\ bpc # "idle"
    /\ apc = "idle"
    /\ twi_calls < MaxTwiCalls
    /\ twi_calls' = twi_calls + 1
    /\ overlapped' = (overlapped \/ twi_state # "IDLE")
    /\ IF len > 0 /\ twi_state # "BUSY_BLOCKING"
       THEN /\ twi_buf_index' = 0
            /\ twi_buf' = "ubuf"
            /\ twi_buf_len' = len
            /\ twi_addr' = addr
            /\ Twcr(TRUE, FALSE, twdr)
            /\ twi_state' = "SENT_START"
            /\ UNCHANGED apc
       ELSE /\ apc' = "aborted"
            /\ UNCHANGED <<twi_state, twi_addr, twi_buf_index, twi_buf,
                           twi_buf_len, hwVars>>
    /\ UNCHANGED <<sreg_i, ubuf, a_addr, a_len, bpc, b_addr, b_len, b_i,
                   a_buf, sbuf>>
    /\ UNCHANGED <<rbVars, histVars, res, stream, fgVars, rdVars, txVars>>

\* the two transfer functions, with twi_transfer called from interrupt
\* handlers too; a failed assertion ends the program
NextNested ==
    \/ apc # "aborted" /\ NextTwi
    \/ \E addr \in TwiAddrs, len \in TwiLens : TwiTransferNested(addr, len)

SpecNested == Init /\ [][NextNested]_vars

\* the 7-bit addresses handed to twi_send
SendAddrs == {addr \div 2 : addr \in TwiAddrs}

\* twi_send(addr, value) is called between two other calls of the foreground:
\* uint8_t buf[] = {value}, and the call of
\* twi_transfer((addr << 1) | TW_WRITE, buf, sizeof(buf))
TwiSend(addr, value) ==
    /\ apc = "idle"
    /\ bpc = "idle"
    /\ twi_calls < MaxTwiCalls
    /\ twi_calls' = twi_calls + 1
    /\ overlapped' = (overlapped \/ twi_state # "IDLE")
    /\ sbuf' = <<value>>
    /\ IF twi_state # "BUSY_BLOCKING"
       THEN /\ apc' = "index"
            /\ a_addr' = U8(2 * addr)
            /\ a_len' = 1
            /\ a_buf' = "sbuf"
       ELSE /\ apc' = "aborted"
            /\ UNCHANGED <<a_addr, a_len, a_buf>>
    /\ res' = NoResult
    /\ UNCHANGED <<twi_state, twi_addr, twi_buf_index, twi_buf, twi_buf_len,
                   hwVars, sreg_i, ubuf, bpc, b_addr, b_len, b_i>>
    /\ UNCHANGED <<rbVars, histVars, stream, fgVars, rdVars, txVars>>

\* the return of twi_send: the lifetime of buf[] ends
TwiSendReturn ==
    /\ apc = "send_return"
    /\ sbuf' = << >>
    /\ apc' = "idle"
    /\ UNCHANGED <<twi_state, twi_addr, twi_buf_index, twi_buf, twi_buf_len,
                   hwVars, sreg_i, ubuf, a_addr, a_len, a_buf, bpc, b_addr,
                   b_len, b_i, twi_calls, overlapped>>
    /\ UNCHANGED <<rbVars, histVars, res, stream, fgVars, rdVars, txVars>>

\* twi_send, the steps of the twi_transfer it calls, the bus controller and
\* the completion handler
NextTwiSend ==
    \/ \E addr \in SendAddrs, value \in ByteVals : TwiSend(addr, value)
    \/ TwiTransferStep
    \/ TwiSendReturn
    \/ HwStep
    \/ \E v \in ByteVals : TwiISR(v)
    \/ TwiStatus

SpecTwiSend == Init /\ [][NextTwiSend]_vars

\* twi_transfer_blocking alone: the only transfers are blocking ones
NextBlocking ==
    \/ \E addr \in TwiAddrs, len \in TwiLens : BlockingCall(addr, len)
    \/ BlockingStep
    \/ HwStep
    \/ \E v \in ByteVals : TwiISR(v)
    \/ TwiStatus

\* the bus controller finishes every phase it was given, and the foreground
\* keeps running while it is inside twi_transfer_blocking
SpecBlocking ==
    Init /\ [][NextBlocking]_vars /\ WF_vars(HwStep) /\ WF_vars(BlockingStep)

\* ------------------------------------------------------------------------
\* Properties of the circular buffer (specification Spec)
\* ------------------------------------------------------------------------

\* C1: a write that returns Full leaves start, end and every storage byte as
\* they were before the call.
C1_FullWriteChangesNothing ==
    [][(res'.op = "write" /\ res'.status = FULL)
        => (start' = start /\ end' = end /\ buf' = buf)]_vars

\* a payload that an empty buffer would take is refused by a wrapped buffer
C1_Witness ==
    /\ res.op = "write"
    /\ res.status = FULL
    /\ start > end
    /\ res.arg <= buflen

\* C2: every byte accepted by a write that returned Ok comes out of
\* read_and_advance, in the order written: read_and_advance(max_len) returns
\* the first min(max_len, buffered) bytes accepted and not yet removed.
C2_RoundTrip ==
    [][res'.op = "read_and_advance" => res'.dest = Take(fifo, res'.arg)]_vars

\* C3: as long as the number of buffered bytes has never exceeded
\* capacity - 1, len() is the number of bytes accepted minus the number removed.
C3_LenIsAcceptedMinusRemoved ==
    ~overflowed => circular_buffer_len(start, end, buflen) = Len(fifo)

\* a write has filled a wrapped buffer to capacity - 1
C3_Witness ==
    /\ ~overflowed
    /\ res.op = "write"
    /\ res.status = OK
    /\ start > end
    /\ Len(fifo) = buflen - 1

\* C4: advance(amount) leaves max(0, len() - amount) bytes, which are the
\* bytes that followed the removed ones, and changes neither end nor storage.
C4_AdvanceSaturates ==
    [][res'.op = "advance"
        => /\ circular_buffer_len(start', end', buflen')
                = Max(0, circular_buffer_len(start, end, buflen) - res'.arg)
           /\ Content' = Drop(Content, res'.arg)
           /\ end' = end
           /\ buf' = buf]_vars

\* an advance by more than the occupancy of a wrapped buffer (more bytes were
\* buffered than lie before end, so the buffered region wrapped)
C4_Witness ==
    /\ res.op = "advance"
    /\ res.pre > 0
    /\ res.arg > res.pre
    /\ res.pre > end
    /\ start = end

\* C5: read(dest, max_len) changes neither cursor nor the storage, returns
\* min(max_len, len()), and copies the oldest buffered bytes in order.
C5_ReadIsNonDestructive ==
    [][res'.op = "read"
        => /\ start' = start /\ end' = end /\ buf' = buf
           /\ res'.ret = Min(res'.arg, circular_buffer_len(start, end, buflen))
           /\ Len(res'.dest) = res'.ret
           /\ res'.dest = Take(Content, res'.arg)
           /\ (~overflowed => res'.dest = Take(fifo, res'.arg))]_vars

\* a read that copied bytes from both sides of the wrap boundary
C5_Witness ==
    /\ res.op = "read"
    /\ start > end
    /\ start < buflen
    /\ res.ret > buflen - start
    /\ ~overflowed

\* C15, as claimed: both cursors stay below the capacity.
C15_CursorsBelowCapacity ==
    /\ 0 <= start /\ start < buflen
    /\ 0 <= end /\ end < buflen

\* C15, amended: both cursors stay within 0..capacity; a cursor equals the
\* capacity after a write has filled the storage up to its last byte.
C15_CursorsWithinCapacity ==
    /\ 0 <= start /\ start <= buflen
    /\ 0 <= end /\ end <= buflen

\* the storage was filled up to its last byte and then emptied by advance
C15_Witness ==
    /\ res.op = "advance"
    /\ res.pre = buflen
    /\ start = buflen
    /\ end = buflen

\* C16: write does not change start; read, read_and_advance, advance and len
\* change neither end nor a storage byte; start changes only in
\* read_and_advance and advance, end only in write.
C16_CursorOwnership ==
    [][/\ res'.op = "write" => start' = start
       /\ res'.op \in {"read", "read_and_advance", "advance", "len"}
            => (end' = end /\ buf' = buf)
       /\ start' # start => res'.op \in {"read_and_advance", "advance"}
       /\ end' # end => res'.op = "write"]_vars

\* a write across the wrap boundary was accepted while start was not 0
C16_Witness ==
    /\ res.op = "write"
    /\ res.status = OK
    /\ res.arg >= 2
    /\ start > 0
    /\ end > 0
    /\ end < start

\* C17: a write of n >= 1 bytes that returns Ok increases len() by n.
C17_OkWriteGrowsLen ==
    [][(res'.op = "write" /\ res'.status = OK /\ res'.arg >= 1)
        => circular_buffer_len(start', end', buflen')
             = circular_buffer_len(start, end, buflen) + res'.arg]_vars

\* C18: in every state, for every max_len, read_and_advance returns the count
\* and the bytes that read returns and stores the start that advance(count)
\* stores, which leaves len() smaller by count.
C18_ReadAndAdvanceIsReadThenAdvance ==
    \A max_len \in Amounts :
        LET ra == circular_buffer_read_and_advance(max_len, start, end, buf,
                                                   buflen)
            r == circular_buffer_read(max_len, start, end, buf, buflen)
            a == circular_buffer_advance(r.ret, start, end, buflen)
        IN  /\ ra.ret = r.ret
            /\ ra.dest = r.dest
            /\ ra.start = a.start
            /\ circular_buffer_len(ra.start, end, buflen)
                 = circular_buffer_len(start, end, buflen) - r.ret

\* read_and_advance has taken bytes from both sides of the wrap boundary
C18_Witness ==
    /\ res.op = "read_and_advance"
    /\ res.ret >= 2
    /\ start > 0
    /\ start < res.ret

\* ------------------------------------------------------------------------
\* Properties of the receive direction (specification SpecRx)
\* ------------------------------------------------------------------------

\* C6: with the receive interrupt writing between any two steps of a foreground
\* read, read_and_advance, advance or len, and as long as no write returned
\* Full and fewer than capacity bytes were ever buffered: the buffer holds
\* exactly the bytes written and not yet removed, in write order; a read or
\* read_and_advance returns the oldest of them; len never over-reports.
C6_ReceiveIsFifo ==
    /\ [](~overflowed => Content = fifo)
    /\ [][(cpc # "idle" /\ cpc' = "idle" /\ ~overflowed')
            => /\ res'.op \in {"read", "read_and_advance"}
                    => /\ res'.dest = Take(fifo, res'.ret)
                       /\ res'.ret = Min(res'.arg, res'.pre)
               /\ res'.op = "len" => res'.ret <= Len(fifo)]_vars

\* a read_and_advance that copied from both sides of the wrap boundary was
\* interrupted by the receive interrupt
C6_Witness ==
    /\ ~overflowed
    /\ cpc = "idle"
    /\ res.op = "read_and_advance"
    /\ res.isr >= 1
    /\ res.ret >= 2
    /\ start < res.ret
    /\ start > 0

\* ------------------------------------------------------------------------
\* Properties of the send direction (specification SpecTx)
\* ------------------------------------------------------------------------

\* C19: with the data-register-empty interrupt taking one byte between any two
\* steps of the write of usart_send_bytes, every byte the interrupt takes is
\* the oldest byte of a finished write that was not taken yet, and the
\* interrupt finds the buffer empty only when no such byte is left.
C19_SendIsFifo ==
    /\ [][Len(wire') > Len(wire)
            => (fifo # << >> /\ wire' = Append(wire, Head(fifo)))]_vars
    /\ [][(udrie /\ ~udrie') => fifo = << >>]_vars

\* s can be obtained from t by leaving bytes out
RECURSIVE IsSubseq(_, _)
IsSubseq(s, t) ==
    IF s = << >> THEN TRUE
    ELSE IF t = << >> THEN FALSE
    ELSE IF Head(s) = Head(t) THEN IsSubseq(Tail(s), Tail(t))
    ELSE IsSubseq(s, Tail(t))

\* the bytes of the call in progress that are neither in the send buffer nor
\* in UDR0 yet
Pending == IF tpc \in {"idle", "sending", "enable"} THEN << >> ELSE tsrc

\* C32: the bytes stored to UDR0 are bytes handed to the send functions, in
\* the order of the calls and none twice; as long as no write returned Full
\* and the send buffer never held more than capacity - 1 bytes, they are
\* followed by the buffered bytes and the bytes of the call in progress with
\* none missing; and usart_send_byte_blocking stores to UDR0 only when no
\* buffered byte is pending.
C32_TransmitOrder ==
    /\ IsSubseq(wire, submitted)
    /\ (~overflowed /\ ~refused) => wire \o fifo \o Pending = submitted
    /\ (~overflowed /\ tpc = "wait_udre") => (fifo = << >> /\ start = end)

\* usart_send_byte_blocking has stored its byte to UDR0 after the interrupt
\* had sent buffered bytes, and every byte handed over is on the wire
C32_Witness ==
    /\ res.op = "usart_send_byte_blocking"
    /\ tpc = "idle"
    /\ ~overflowed
    /\ ~refused
    /\ start > 0
    /\ Len(wire) >= 3
    /\ wire = submitted

\* the send buffer is empty, nothing is being sent and the
\* data-register-empty interrupt is disabled
Drained == start = end /\ ~usart_is_sending /\ ~udrie

\* C33: with the data-register-empty interrupt served, the send direction
\* always comes back to the state in which the send buffer is empty,
\* _usart_is_sending is false and the interrupt is disabled, and a
\* usart_send_byte_blocking call that waits for _usart_is_sending leaves its
\* loop.
C33_TransmitDrains ==
    /\ (tpc \in {"sending", "enable", "idle"}) ~> Drained
    /\ (tpc = "wait_sending") ~> (tpc = "wait_udre")

\* usart_send_byte_blocking was called while buffered bytes were being sent,
\* and has left its loop with the send direction drained
C33_Witness ==
    /\ tpc = "wait_udre"
    /\ Drained
    /\ start > 0
    /\ Len(wire) >= 2
    /\ Len(wire) + 1 = Len(submitted)

\* ------------------------------------------------------------------------
\* Properties of usart_recv_take_until_blocking (specification SpecTake)
\* ------------------------------------------------------------------------

\* the offsets at which the needle occurs in the bytes received so far
StreamOccurrences == Occurrences(stream, 1, Len(stream) - 1, needle)

\* the first needle of the stream lies within the first len - 1 bytes and no
\* zero byte comes before its end
MatchInReach ==
    /\ StreamOccurrences # {}
    /\ SetMin(StreamOccurrences) + Len(needle) <= slen - 1
    /\ \A i \in 1..(SetMin(StreamOccurrences) + Len(needle)) : stream[i] # 0

\* C7: when the first needle of a stream of non-zero bytes starts at offset p
\* with p + needle_len <= len - 1, take_until returns p once the needle has
\* been read, recv_buf[0..p) holds the bytes before the needle, and exactly
\* p + needle_len bytes have left the receive buffer, which still holds every
\* later byte in order.
C7_TakeUntilMatch ==
    LET p == SetMin(StreamOccurrences) IN
    MatchInReach =>
        /\ pc = "done" =>
            /\ res.ret = p
            /\ \A i \in 0..(p - 1) : recv_buf[i] = stream[i + 1]
            /\ Removed = p + Len(needle)
            /\ Content = SubSeq(stream, p + Len(needle) + 1, Len(stream))
        /\ pc \in {"read", "sleep"} => total_recv_bytes < p + Len(needle)

\* a needle whose first byte was read, and advanced past, one iteration before
\* its last byte, with a byte after it left in the receive buffer
C7_Witness ==
    /\ pc = "done"
    /\ MatchInReach
    /\ res.ret = match
    /\ match >= 1
    /\ res.pre > match
    /\ Len(fifo) >= 1

\* C8: when the first len - 1 bytes hold no needle, take_until returns
\* len - 1 as soon as they have been read; exactly those bytes have left the
\* receive buffer and are in recv_buf.
C8_TakeUntilOverflow ==
    /\ (/\ pc = "done"
        /\ Len(stream) >= slen - 1
        /\ Occurrences(stream, 1, slen - 2, needle) = {})
        => /\ res.ret = slen - 1
           /\ match = -1
           /\ \A i \in 0..(slen - 2) : recv_buf[i] = stream[i + 1]
           /\ Removed = slen - 1
           /\ Content = SubSeq(stream, slen, Len(stream))
    /\ pc \in {"read", "sleep"} => total_recv_bytes < slen - 1

\* the scan gave up, over several iterations, with a byte left in the buffer
C8_Witness ==
    /\ pc = "done"
    /\ match = -1
    /\ res.ret = slen - 1
    /\ res.pre > 0
    /\ Len(fifo) >= 1

\* C31: for a non-empty needle, take_until returns at most len - 1 -
\* needle_len, the offset of the needle in recv_buf, when it returns from the
\* branch that found the needle, and exactly len - 1 when it returns from the
\* branch that gave up, so the value len - 1 is returned by the second branch
\* only.
C31_ReturnTellsMatchFromOverflow ==
    (pc = "done" /\ Len(needle) >= 1) =>
        /\ match >= 0 =>
              /\ res.ret = match
              /\ res.ret <= slen - 1 - Len(needle)
              /\ \A i \in 1..Len(needle) : recv_buf[res.ret + i - 1] = needle[i]
        /\ match = -1 =>
              /\ res.ret = slen - 1
              /\ Strstr(recv_buf, needle) = -1
        /\ (res.ret = slen - 1) <=> (match = -1)

\* the needle was found in the last bytes recv_buf has room for
C31_Witness ==
    /\ pc = "done"
    /\ Len(needle) >= 1
    /\ match = slen - 1 - Len(needle)
    /\ res.ret = match
    /\ total_recv_bytes = slen - 1

\* ------------------------------------------------------------------------
\* Properties of usart_recv_drop_until_blocking (specification SpecDrop)
\* ------------------------------------------------------------------------

\* C9, as claimed: when drop_until returns, the needle it found has been
\* consumed and the next readable byte is the first one after the needle.
C9_DropConsumesNeedle ==
    pc = "done" =>
        Content = SubSeq(stream, match + Len(needle) + 1, Len(stream))

\* C9, amended: when drop_until returns it has found a needle of the stream
\* and removed every byte before it; if no byte of that needle had been read
\* in an earlier iteration, exactly those bytes were removed, so the needle
\* itself is the next data in the receive buffer.
C9_DropRemovesPrefix ==
    pc = "done" =>
        /\ SubSeq(stream, match + 1, match + Len(needle)) = needle
        /\ Removed >= match
        /\ res.pre <= match =>
            /\ Removed = match
            /\ Content = SubSeq(stream, match + 1, Len(stream))

\* a needle found within one read, after other bytes, with a byte behind it
C9_Witness ==
    /\ pc = "done"
    /\ match >= 1
    /\ res.pre <= match
    /\ Len(fifo) > Len(needle)

\* C10: when drop_until returns, the number of bytes it removed from the
\* receive buffer is the offset of the needle's start.
C10_DropRemovesExactlyPrefix ==
    pc = "done" => Removed = match

\* ------------------------------------------------------------------------
\* Properties of both functions (specifications SpecTake and SpecReaders)
\* ------------------------------------------------------------------------

\* C21: the call does not sleep once the receive interrupt has delivered the
\* byte that completes a needle within reach: it returns without a further
\* interrupt.
C21_NoLostWakeup ==
    pc = "sleep" => ~MatchInReach

\* C22: with 1 <= needle_len < len - 1 the accumulated count never exceeds
\* len - 1, so the bytes copied by a read lie at indices below the count and
\* the NUL stored after them lies at an index below len.
C22_ScratchBound ==
    (1 <= Len(needle) /\ Len(needle) < slen - 1) =>
        /\ 0 <= total_recv_bytes
        /\ total_recv_bytes <= slen - 1
        /\ total_recv_bytes \in DOMAIN recv_buf
        /\ pc = "search" =>
              /\ recv_bytes <= total_recv_bytes
              /\ recv_buf[total_recv_bytes] = 0

\* drop_until has filled recv_buf to len - 1 bytes again after a compaction
C22_Witness ==
    /\ cop = "drop_until"
    /\ pc = "search"
    /\ total_recv_bytes = slen - 1
    /\ recv_bytes >= 1
    /\ Removed >= slen - 1

\* no zero byte among the first k bytes received
NoZeroIn(k) == \A i \in 1..k : stream[i] # 0

\* C20: with needle_len < len - 1 and no zero byte received before the end of
\* the needle, drop_until does not go on to another iteration once the bytes
\* it has read hold the needle, and when it returns it has found the first
\* needle of the stream, in the iteration that read the needle's last byte.
C20_CompactionKeepsMatch ==
    /\ pc \in {"read", "sleep"} =>
           \A p \in StreamOccurrences :
               NoZeroIn(p + Len(needle)) => p + Len(needle) > Removed
    /\ pc = "done" =>
           /\ StreamOccurrences # {}
           /\ NoZeroIn(SetMin(StreamOccurrences) + Len(needle)) =>
                  /\ match = SetMin(StreamOccurrences)
                  /\ res.pre < match + Len(needle)
                  /\ match + Len(needle) <= res.pre + recv_bytes

\* the needle was found behind the first len - 1 bytes, with its first byte
\* kept in recv_buf by a compaction
C20_Witness ==
    /\ pc = "done"
    /\ Len(needle) < slen - 1
    /\ NoZeroIn(match + Len(needle))
    /\ match >= slen - 1
    /\ res.pre > match

\* ------------------------------------------------------------------------
\* Properties of the TWI engine (specifications SpecBlocking and SpecTwi)
\* ------------------------------------------------------------------------

\* C11: twi_transfer_blocking returns with _twi_state == IDLE, and once it has
\* claimed the engine it does return, whatever the direction, the length and
\* the status with which the bus controller finishes each phase.
C11_BlockingEndsIdle ==
    /\ [][(bpc # "idle" /\ bpc' = "idle") => twi_state' = "IDLE"]_vars
    /\ (twi_state = "BUSY_BLOCKING") ~> (bpc = "idle" /\ twi_state = "IDLE")

\* a blocking write whose address was not acknowledged has returned
C11_Witness ==
    /\ res.op = "twi_transfer_blocking"
    /\ res.status = "TW_MT_SLA_NACK"
    /\ res.arg >= 1
    /\ bpc = "idle"
    /\ twi_state = "IDLE"

\* C12: once the completion handler has run for a phase that finished with a
\* status other than the one the state of the engine waits for, the engine is
\* in IDLE.
C12_HandlerResetsOnNack ==
    (isr_seen \in SentStates /\ tw_status # Expected(isr_seen))
        => twi_state = "IDLE"

\* C13: a call of twi_transfer that finds the engine in another state than IDLE
\* fails its precondition.
C13_AsyncRequiresIdle ==
    [][(apc = "idle" /\ apc' # "idle" /\ twi_state # "IDLE")
        => apc' = "aborted"]_vars

\* C14: twi_status() returns READY exactly when _twi_state is IDLE and PENDING
\* in the six other states, which are the only states the engine reaches, so
\* it never returns ERROR.
C14_StatusReflectsState ==
    /\ [](twi_state \in SentStates \cup {"IDLE", "BUSY_BLOCKING"})
    /\ [](twi_status(twi_state) # "ERROR")
    /\ [][(res' # res /\ res'.op = "twi_status")
            => /\ res'.status = (IF twi_state = "IDLE" THEN "READY"
                                 ELSE "PENDING")
               /\ UNCHANGED twiVars]_vars

\* twi_status() has returned PENDING during a blocking transfer
C14_Witness ==
    /\ res.op = "twi_status"
    /\ res.status = "PENDING"
    /\ twi_state = "BUSY_BLOCKING"
    /\ bpc = "wait_data"

\* the edges of the protocol diagram that change the state of the engine
ProtocolEdge(s, t, addr) ==
    \/ s = "SENT_START" /\ ~IsRead(addr) /\ t = "SENT_WRITE_ADDR"
    \/ s = "SENT_START" /\ IsRead(addr) /\ t = "SENT_READ_ADDR"
    \/ s = "SENT_WRITE_ADDR" /\ t = "SENT_WRITE_DATA"
    \/ s = "SENT_WRITE_DATA" /\ t = "IDLE"
    \/ s = "SENT_READ_ADDR" /\ t = "SENT_READ_DATA"
    \/ s = "SENT_READ_DATA" /\ t = "IDLE"

\* C23: every change of _twi_state made by the completion handler, which is
\* every change outside the steps of the two transfer functions, follows an
\* edge of the protocol diagram; the direction is chosen at SENT_START from
\* bit 0 of the address, and no edge leads from a write state to a read state
\* or from a read state to a write state.
C23_HandlerFollowsProtocol ==
    [][(twi_state' # twi_state /\ apc' = apc /\ bpc' = bpc)
        => ProtocolEdge(twi_state, twi_state', twi_addr)]_vars

\* the handler has taken a read transaction from the address to the data
C23_Witness ==
    /\ twi_state = "SENT_READ_DATA"
    /\ IsRead(twi_addr)
    /\ twi_calls = 1
    /\ bus = << <<"START", 0>>, <<"ADDR", twi_addr>>, <<"RX", 0>> >>

\* what a write of the first n bytes of the caller's buffer to addr puts on
\* the bus
WriteBus(addr, n) ==
    << <<"START", 0>>, <<"ADDR", addr>> >>
        \o [i \in 1..n |-> <<"TX", ubuf[i - 1]>>]
        \o << <<"STOP", 0>> >>

\* C24: in a write started by twi_transfer on an idle engine, each
\* acknowledged data phase makes the handler send the next byte of the buffer
\* while there is one, and the acknowledgement of the last byte makes it issue
\* the stop condition and set IDLE, the bus having carried buffer[0] ..
\* buffer[len - 1] in order, each once.
C24_AsyncWriteSendsBuffer ==
    [][(/\ ~overlapped
        /\ twi_state = "SENT_WRITE_DATA"
        /\ apc' = apc /\ bpc' = bpc
        /\ bus' # bus)
        => IF twi_buf_index < twi_buf_len
           THEN /\ twi_state' = "SENT_WRITE_DATA"
                /\ twdr' = ubuf[twi_buf_index]
                /\ bus' = Append(bus, <<"TX", ubuf[twi_buf_index]>>)
           ELSE /\ twi_state' = "IDLE"
                /\ bus' = WriteBus(twi_addr, twi_buf_len)]_vars

\* the only transfer was an asynchronous write of the longest buffer, and it
\* is complete
C24_Witness ==
    /\ twi_calls = 1
    /\ twi_buf = "ubuf"
    /\ ~IsRead(twi_addr)
    /\ twi_buf_len = MaxTwiLen
    /\ twi_state = "IDLE"
    /\ bus = WriteBus(twi_addr, twi_buf_len)

\* what twi_transfer_blocking puts on the bus to read n bytes from addr
ReadBus(addr, n) ==
    << <<"START", 0>>, <<"ADDR", addr>> >>
        \o [i \in 1..n |-> <<"RX", 0>>]
        \o << <<"STOP", 0>> >>

\* C25: a read started by twi_transfer on an idle engine has, when the
\* handler sets IDLE, put on the bus what twi_transfer_blocking puts there: the
\* start, the address, len data phases and the stop, with the byte of data
\* phase i in buffer[i].
C25_AsyncReadMatchesBlocking ==
    [][(/\ ~overlapped
        /\ twi_state = "SENT_READ_DATA"
        /\ twi_state' = "IDLE"
        /\ apc' = apc /\ bpc' = bpc)
        => /\ bus' = ReadBus(twi_addr, twi_buf_len)
           /\ \A i \in 0..(twi_buf_len - 1) : ubuf'[i] = DeviceByte(i + 1)]_vars

\* the status codes with which a phase fails
Refused ==
    {"TW_BUS_ERROR", "TW_MT_SLA_NACK", "TW_MR_SLA_NACK", "TW_MT_DATA_NACK",
     "TW_MR_DATA_NACK"}

\* C26: when every phase is acknowledged, a call of twi_transfer_blocking
\* that finds a transfer started by twi_transfer in flight claims the engine
\* in the end.
C26_BlockingWaitsThenProceeds ==
    ([](tw_status \notin Refused) /\ [](apc # "aborted") /\ [](~overlapped))
        => ((bpc = "wait_idle" /\ twi_state \in SentStates)
                ~> (twi_state = "BUSY_BLOCKING"))

\* C27: while _twi_state is BUSY_BLOCKING, a step that is neither a step of
\* twi_transfer_blocking nor the end of a phase nor a call, which is a run of
\* the completion handler, changes none of _twi_state, _twi_addr, _twi_buf,
\* _twi_buf_len, _twi_buf_index, the caller's buffer, the registers of the
\* bus controller and the bus; and a call of twi_transfer fails its assertion
\* and changes none of them either.
C27_BlockingIsUndisturbed ==
    /\ [][(/\ twi_state = "BUSY_BLOCKING"
           /\ twint
           /\ UNCHANGED <<apc, bpc, b_i, twi_calls>>)
           => UNCHANGED <<twi_state, twi_addr, twi_buf, twi_buf_len,
                          twi_buf_index, ubuf, twint, twie, tw_status, twdr,
                          phase, bus>>]_vars
    /\ [][(twi_state = "BUSY_BLOCKING" /\ twi_calls' # twi_calls)
           => /\ apc' = "aborted"
              /\ UNCHANGED <<twi_state, twi_addr, twi_buf, twi_buf_len,
                             twi_buf_index, ubuf, twint, twie, tw_status,
                             twdr, phase, bus>>]_vars

\* the completion handler has run during a blocking transfer, and a call of
\* twi_transfer from an interrupt handler has failed its assertion
C27_Witness ==
    /\ twi_state = "BUSY_BLOCKING"
    /\ bpc = "wait_data"
    /\ isr_seen = "BUSY_BLOCKING"
    /\ apc = "aborted"

\* C28: while a transfer started by twi_transfer is in flight the completion
\* interrupt is enabled: the writes of TWCR by twi_transfer and by the handler
\* leave TWIE set.
C28_CompletionInterruptEnabled ==
    twi_state \in SentStates => twie

\* C29: when a transfer that issued a start condition leaves the engine in
\* IDLE, the last thing it put on the bus is a stop condition.
C29_StartStopPairing ==
    [][(twi_state # "IDLE" /\ twi_state' = "IDLE" /\ bus' # << >>)
        => bus'[Len(bus')] = <<"STOP", 0>>]_vars

\* C30: _twi_buf_index never exceeds _twi_buf_len, and the handler reads
\* _twi_buf[_twi_buf_index] only with the index below the length.
C30_IndexWithinLength ==
    /\ twi_buf_index <= twi_buf_len
    /\ (twint /\ twi_state = "SENT_WRITE_ADDR" /\ tw_status = "TW_MT_SLA_ACK")
            => twi_buf_index < twi_buf_len

\* the completion handler is about to run and will read or write
\* _twi_buf[_twi_buf_index]
HandlerAccess ==
    /\ twint
    /\ sreg_i
    /\ apc # "aborted"
    /\ \/ twi_state = "SENT_WRITE_ADDR" /\ tw_status = "TW_MT_SLA_ACK"
       \/ /\ twi_state = "SENT_WRITE_DATA"
          /\ tw_status = "TW_MT_DATA_ACK"
          /\ twi_buf_index < twi_buf_len
       \/ /\ twi_state = "SENT_READ_DATA"
          /\ tw_status = "TW_MR_DATA_ACK"
          /\ twi_buf_index < twi_buf_len

\* C34: when the completion handler reads or writes the buffer of a transfer
\* started by twi_send, the array it points to is within its lifetime.
C34_BorrowedBufferLive ==
    (HandlerAccess /\ twi_buf = "sbuf") => sbuf # << >>

====
